---- MODULE Spec2Model ----
(***************************************************************************)
(* Verification model of raws-mcp:                                         *)
(*   - Cache (TTL + LRU)                                                   *)
(*   - ClientManager (cache-or-fetch with provider failover, NWS alerts)   *)
(*   - BaseClient.request (retry with backoff)                             *)
(*   - transformRedFlagWarnings                                            *)
(*   - executeTool and the four tool handlers                              *)
(*   - the transformer's ranges, the calculators and the other utilities   *)
(* The specifications sharing the module: SpecCache, SpecSweep, SpecCoord, *)
(* SpecShared, SpecFetch (SpecFetchFair with fairness), SpecRetry,         *)
(* SpecWarn, SpecTool, and one per family of utility functions:            *)
(* SpecHistory, SpecRanges, SpecStationId, SpecCardinal, SpecCalc and      *)
(* SpecSearch.                                                             *)
(***************************************************************************)
EXTENDS Integers, Sequences, FiniteSets, TLC

VARIABLES
  store,      \* Cache.store: Map in insertion order, as a sequence of entries
  now,        \* Date.now()
  maxSize,    \* Cache.maxSize (config.cacheMaxSize)
  last,       \* the last cache call made and what it returned
  shadow,     \* the same cache driven by the same calls, but whose timer never fires
  evicted,    \* TRUE once some set has run _evictLRU on a non-empty store
  diverged,   \* TRUE once a get or has returned differently on store and shadow
  rq,         \* one BaseClient.request call: position, attempt, errors, sleeps
  clients,    \* ClientManager.availableClients: provider names in priority order
  nws,        \* config.features.nwsIntegration
  req,        \* the coordinator requests in flight: position, provider calls, outcome
  tool,       \* one executeTool call: position, arguments, calls made, envelope
  nw,         \* one getNWSAlerts / getNWSForecast call: position, accesses, outcome
  tr,         \* one transformRedFlagWarnings call: its inputs and the list returned
  fireIndices, \* config.features.fireIndices
  fn,         \* one call of a utility function: its name, arguments and result
  co          \* one coordinator call followed through its HTTP attempts

vars == <<store, now, maxSize, last, shadow, evicted, diverged, rq, clients, nws, tool, nw, tr, fireIndices, fn, co, req>>

----------------------------------------------------------------------------
(* Bounds *)
MaxTime == 2
MaxHits == 1
MaxAlerts == 2
MaxSeries == 2
MaxStations == 3

(* Program constants *)
CacheTTLSeconds == 300
MaxRetries == 3
CurrentTTL == 300000
SearchTTL == 3600000
HistoricalTTL == 86400000
AlertsTTL == 300000
ForecastTTL == 3600000
SixHours == 6 * 3600 * 1000
DefaultTTL == CacheTTLSeconds * 1000

Null == <<>>

\* config.cacheMaxSize values explored
CacheSizes == {1, 2}
Keys == {<<"current", "S1">>, <<"current", "S2">>, <<"nws:alerts", "L1">>}
Values == {<<"v1">>}
\* ttl argument of set: 0 stands for null/omitted (falsy)
TTLs == {0, 1}

\* coordinator request slots, and a slot with no request in it; Solo: the
\* slot used when requests are made one after another
Reqs == {1, 2}
Solo == {1}

NoFailure == [code |-> "none", from |-> "none"]

IdleCall ==
  [pc |-> "idle", kind |-> Null, calls |-> <<>>, lastError |-> NoFailure,
   result |-> Null]

\* a JSON argument value: its JavaScript type, its number, its characters
JsValue(t, n, s) == [t |-> t, n |-> n, s |-> s]
Undefined == JsValue("undefined", 0, <<>>)
NaN == JsValue("nan", 0, <<>>)
Num(n) == JsValue("number", n, <<>>)
Str(s) == JsValue("string", 0, s)

\* the result envelope of a tool
Failure(code, status, message) ==
  [success |-> FALSE, code |-> code, status |-> status, message |-> message, data |-> <<>>]

Success(data) ==
  [success |-> TRUE, code |-> <<>>, status |-> 0, message |-> <<>>, data |-> data]

NoEnvelope == [success |-> FALSE, code |-> <<>>, status |-> 0, message |-> <<>>, data |-> <<>>]

\* a thrown value as the catch blocks read it: code and message are <<>> and
\* status is 0 when the property is undefined
Thrown(code, status, message) == [code |-> code, status |-> status, message |-> message]

NoThrow == Thrown(<<>>, 0, <<>>)

\* the argument objects explored
Args(given, id, lat, lon, radius, startT, endT, temp, rh, wind) ==
  [given |-> given, station_id |-> id, latitude |-> lat, longitude |-> lon,
   radius |-> radius, start_time |-> startT, end_time |-> endT,
   temperature |-> temp, relative_humidity |-> rh, wind_speed |-> wind]

\* a call without an arguments object, and one with an empty object
NoArgs ==
  Args(FALSE, Undefined, Undefined, Undefined, Undefined, Undefined, Undefined,
       Undefined, Undefined, Undefined)

EmptyArgs == [NoArgs EXCEPT !.given = TRUE]

\* the station objects a coordinator call may resolve with (readings in tenths)
Station(obs, coords, t, rh, w, g) ==
  [obs |-> obs, coords |-> coords, air_temp |-> t, relative_humidity |-> rh,
   wind_speed |-> w, wind_gust |-> g]

NoStation == Station(FALSE, FALSE, Undefined, Undefined, Undefined, Undefined)

\* no tool call in progress
IdleTool ==
  [pc |-> "idle", name |-> "", args |-> NoArgs, calls |-> <<>>, station |-> NoStation,
   error |-> NoThrow, alerts |-> <<>>, alertsFailed |-> FALSE, out |-> NoEnvelope]

\* no alert or forecast retrieval in progress
IdleNws == [pc |-> "idle", op |-> "", trace |-> <<>>, failed |-> FALSE, result |-> Null]

\* no utility function called yet
IdleFn == [pc |-> "idle", op |-> "", args |-> <<>>, out |-> <<>>]

\* no coordinator call being followed; sent counts the HTTP attempts of the call
IdleFetch == [pc |-> "idle", key |-> Null, provider |-> 0, attempt |-> 0, sent |-> 0]

\* transformRedFlagWarnings not called yet
IdleTransform == [pc |-> "idle", raws |-> Null, alerts |-> <<>>, warnings |-> <<>>]

----------------------------------------------------------------------------
(* Cache: pure operators on the Map *)

IndexOf(s, k) ==
  IF \E i \in 1..Len(s) : s[i].key = k
  THEN CHOOSE i \in 1..Len(s) : s[i].key = k
  ELSE 0

StoreHas(s, k) == IndexOf(s, k) # 0

EntryOf(s, k) == s[IndexOf(s, k)]

StoreDelete(s, k) == SelectSeq(s, LAMBDA e : e.key # k)

StoreKeys(s) == {s[i].key : i \in 1..Len(s)}

\* a variant of get with the expiry comparison the wrong way round
CacheGetFlipped(s, k, t) ==
  IF ~StoreHas(s, k)
  THEN [store |-> s, ret |-> Null]
  ELSE IF t < EntryOf(s, k).expiresAt
       THEN [store |-> StoreDelete(s, k), ret |-> Null]
       ELSE [store |-> [s EXCEPT ![IndexOf(s, k)].hits = @ + 1,
                                 ![IndexOf(s, k)].lastAccessed = t],
             ret |-> EntryOf(s, k).value]

\* a variant of get that answers with whatever entry is stored first
CacheGetFirst(s, k, t) ==
  IF Len(s) = 0
  THEN [store |-> s, ret |-> Null]
  ELSE [store |-> s, ret |-> s[1].value]

\* Cache.get: returns [store, ret]
CacheGet(s, k, t) ==
  IF ~StoreHas(s, k)
  THEN [store |-> s, ret |-> Null]
  ELSE IF t > EntryOf(s, k).expiresAt
       THEN [store |-> StoreDelete(s, k), ret |-> Null]
       ELSE [store |-> [s EXCEPT ![IndexOf(s, k)].hits = @ + 1,
                                 ![IndexOf(s, k)].lastAccessed = t],
             ret |-> EntryOf(s, k).value]

\* a variant of _evictLRU that ignores lastAccessed and drops the oldest insertion
EvictFirstInserted(s) == IF Len(s) = 0 THEN s ELSE Tail(s)

\* Cache._evictLRU: first entry in iteration order with the smallest lastAccessed
EvictLRU(s) ==
  IF Len(s) = 0 THEN s
  ELSE LET i == CHOOSE i \in 1..Len(s) :
                  /\ \A j \in 1..Len(s) : s[i].lastAccessed <= s[j].lastAccessed
                  /\ \A j \in 1..(i-1) : s[j].lastAccessed > s[i].lastAccessed
       IN StoreDelete(s, s[i].key)

NewEntry(k, v, ttl, t) ==
  [key |-> k, value |-> v, createdAt |-> t, lastAccessed |-> t,
   expiresAt |-> t + (IF ttl # 0 THEN ttl ELSE DefaultTTL), hits |-> 0]

\* a variant of set that never evicts
CacheSetUnbounded(s, k, v, ttl, t, cap) ==
  IF StoreHas(s, k)
  THEN [s EXCEPT ![IndexOf(s, k)] = NewEntry(k, v, ttl, t)]
  ELSE Append(s, NewEntry(k, v, ttl, t))

\* Cache.set
CacheSet(s, k, v, ttl, t, cap) ==
  LET s1 == IF Len(s) >= cap /\ ~StoreHas(s, k) THEN EvictLRU(s) ELSE s
  IN IF StoreHas(s1, k)
     THEN [s1 EXCEPT ![IndexOf(s1, k)] = NewEntry(k, v, ttl, t)]
     ELSE Append(s1, NewEntry(k, v, ttl, t))

\* Cache.has: returns [store, ret]
CacheHas(s, k, t) ==
  IF ~StoreHas(s, k)
  THEN [store |-> s, ret |-> FALSE]
  ELSE IF t > EntryOf(s, k).expiresAt
       THEN [store |-> StoreDelete(s, k), ret |-> FALSE]
       ELSE [store |-> s, ret |-> TRUE]

\* Cache.delete: returns [store, ret]
CacheDelete(s, k) == [store |-> StoreDelete(s, k), ret |-> StoreHas(s, k)]

RECURSIVE SumHits(_)
SumHits(s) == IF Len(s) = 0 THEN 0 ELSE Head(s).hits + SumHits(Tail(s))

\* Cache.getStats
GetStats(s, t, cap) ==
  [size |-> Len(s),
   maxSize |-> cap,
   totalHits |-> SumHits(s),
   activeEntries |-> Len(SelectSeq(s, LAMBDA e : t < e.expiresAt)),
   expiredEntries |-> Len(SelectSeq(s, LAMBDA e : t >= e.expiresAt))]

\* a variant of _cleanup that uses getStats' notion of expired (now >= expiresAt)
CleanupAtExpiry(s, t) == SelectSeq(s, LAMBDA e : ~(t >= e.expiresAt))

\* Cache._cleanup
Cleanup(s, t) == SelectSeq(s, LAMBDA e : ~(t > e.expiresAt))

----------------------------------------------------------------------------
(* BaseClient.request: retry with backoff *)

DigitChars == <<"0", "1", "2", "3", "4", "5", "6", "7", "8", "9">>

DigitVal(c) == (CHOOSE i \in 1..10 : DigitChars[i] = c) - 1

\* the decimal text of n, as a provider writes delay-seconds in Retry-After
RECURSIVE ToDecimal(_)
ToDecimal(n) ==
  IF n < 10 THEN <<DigitChars[n + 1]>>
  ELSE Append(ToDecimal(n \div 10), DigitChars[(n % 10) + 1])

\* parseInt(text, 10) on a string of decimal digits
RECURSIVE ParseInt(_)
ParseInt(text) ==
  IF Len(text) = 0 THEN 0
  ELSE 10 * ParseInt(SubSeq(text, 1, Len(text) - 1)) + DigitVal(text[Len(text)])

RECURSIVE Pow2(_)
Pow2(n) == IF n = 0 THEN 1 ELSE 2 * Pow2(n - 1)

\* delay-seconds a throttling provider may mean; NoHint: header not sent
NoHint == 0 - 1
HintSeconds == {0, 2, 30}

\* an axios error: status = 0 when there is no response, code = "" when
\* there is none, retryAfter = <<>> when the header is absent
ThrottleErrors ==
  {[status |-> 429, code |-> "", retryAfter |-> <<>>, hint |-> NoHint]} \cup
  {[status |-> 429, code |-> "", retryAfter |-> ToDecimal(h), hint |-> h] : h \in HintSeconds}

ServerErrors ==
  {[status |-> st, code |-> "", retryAfter |-> <<>>, hint |-> NoHint] : st \in {500, 503}}

ClientErrors ==
  {[status |-> st, code |-> "", retryAfter |-> <<>>, hint |-> NoHint] : st \in {400, 404}}

NetworkCodes == {"ECONNABORTED", "ENOTFOUND", "ETIMEDOUT", "ECONNRESET"}

NetworkErrors ==
  {[status |-> 0, code |-> c, retryAfter |-> <<>>, hint |-> NoHint] : c \in NetworkCodes}

UnknownErrors == {[status |-> 0, code |-> "", retryAfter |-> <<>>, hint |-> NoHint]}

HttpErrors ==
  ThrottleErrors \cup ServerErrors \cup ClientErrors \cup NetworkErrors \cup UnknownErrors

NoError == [status |-> 0, code |-> "none", retryAfter |-> <<>>, hint |-> NoHint]

\* a variant of _shouldRetry that retries every error status
ShouldRetryAnyStatus(error) ==
  error.status >= 400 \/ error.code \in {"ECONNABORTED", "ENOTFOUND", "ETIMEDOUT", "ECONNRESET"}

\* BaseClient._shouldRetry
ShouldRetry(error) ==
  IF error.status = 429 THEN TRUE
  ELSE IF error.status >= 500 THEN TRUE
  ELSE IF error.code \in {"ECONNABORTED", "ENOTFOUND", "ETIMEDOUT", "ECONNRESET"} THEN TRUE
  ELSE FALSE

\* a variant of _getRetryDelay that never reads the Retry-After header
GetRetryDelayNoHint(error, attempt) ==
  IF error.status = 429 \/ error.status >= 500 THEN Pow2(attempt) * 1000 ELSE 1000

\* BaseClient._getRetryDelay
GetRetryDelay(error, attempt) ==
  IF error.status = 429
  THEN IF Len(error.retryAfter) > 0
       THEN ParseInt(error.retryAfter) * 1000
       ELSE Pow2(attempt) * 1000
  ELSE IF error.status >= 500
       THEN Pow2(attempt) * 1000
       ELSE 1000

\* BaseClient._normalizeError
NormalizeError(error) ==
  IF error.status # 0
  THEN [code |-> <<"HTTP", error.status>>, status |-> error.status, type |-> "http"]
  ELSE IF error.code # ""
       THEN [code |-> <<error.code>>, status |-> 0, type |-> "network_error"]
       ELSE [code |-> <<"UNKNOWN_ERROR">>, status |-> 0, type |-> "unknown"]

NoThrown == [code |-> <<>>, status |-> 0, type |-> "none"]

IdleRequest ==
  [pc |-> "idle", attempt |-> 0, sent |-> 0, lastError |-> NoError,
   log |-> <<>>, thrown |-> NoThrown]

\* request() entered: the loop starts and the first HTTP attempt is sent
RequestStart ==
  /\ rq.pc = "idle"
  /\ rq' = [IdleRequest EXCEPT !.pc = "http", !.sent = 1]

\* this.client.request resolves
HttpOk ==
  /\ rq.pc = "http"
  /\ rq' = [rq EXCEPT !.pc = "returned"]

\* this.client.request rejects with error: the catch block
HttpFail(error) ==
  /\ rq.pc = "http"
  /\ LET isLastAttempt == rq.attempt = MaxRetries - 1
         shouldRetry == ShouldRetry(error)
     IN IF isLastAttempt \/ ~shouldRetry
        THEN rq' = [rq EXCEPT !.pc = "thrown", !.lastError = error,
                              !.thrown = NormalizeError(error)]
        ELSE rq' = [rq EXCEPT !.pc = "sleep", !.lastError = error,
                              !.log = Append(@, [error |-> error,
                                                 attempt |-> rq.attempt,
                                                 delay |-> GetRetryDelay(error, rq.attempt)])]

\* _sleep(delay) resolves: next loop iteration, next HTTP attempt is sent
Wake ==
  /\ rq.pc = "sleep"
  /\ rq.attempt + 1 < MaxRetries
  /\ rq' = [rq EXCEPT !.pc = "http", !.attempt = @ + 1, !.sent = @ + 1]

\* the caller has taken the result; the client serves the next request
RequestDone ==
  /\ rq.pc \in {"returned", "thrown"}
  /\ rq' = IdleRequest

notRetry == <<store, now, maxSize, last, shadow, evicted, diverged, clients, nws, tool, nw, tr, fireIndices, fn, co, req>>

InitRetry ==
  /\ store = <<>>
  /\ now = 0
  /\ maxSize \in CacheSizes
  /\ last = [op |-> "new", key |-> Null, ret |-> Null]
  /\ shadow = <<>>
  /\ evicted = FALSE
  /\ diverged = FALSE
  /\ rq = IdleRequest
  /\ clients = <<"synoptic", "mesowest">>
  /\ nws = TRUE
  /\ req = [r \in Reqs |-> IdleCall]
  /\ tool = IdleTool
  /\ nw = IdleNws
  /\ tr = IdleTransform
  /\ fireIndices = TRUE
  /\ fn = IdleFn
  /\ co = IdleFetch

NextRetry ==
  \/ RequestStart /\ UNCHANGED notRetry
  \/ HttpOk /\ UNCHANGED notRetry
  \/ \E error \in HttpErrors : HttpFail(error) /\ UNCHANGED notRetry
  \/ Wake /\ UNCHANGED notRetry
  \/ RequestDone /\ UNCHANGED notRetry

SpecRetry == InitRetry /\ [][NextRetry]_vars

----------------------------------------------------------------------------
(* Cache: one action per public method, plus the timer's sweep and the     *)
(* clock.                                                                  *)

WouldEvict(s, k) == Len(s) >= maxSize /\ ~StoreHas(s, k) /\ Len(s) > 0

\* the hit counter is unbounded in the program; a get that would hit is
\* explored only while the entry's counter is below MaxHits
HitsBelowCap(s, k) ==
  (StoreHas(s, k) /\ ~(now > EntryOf(s, k).expiresAt)) => EntryOf(s, k).hits < MaxHits

Set(k, v, ttl) ==
  /\ store' = CacheSet(store, k, v, ttl, now, maxSize)
  /\ last' = [op |-> "set", key |-> k, ret |-> Null]
  /\ evicted' = (evicted \/ WouldEvict(store, k))
  /\ UNCHANGED <<now, maxSize>>

Get(k) ==
  /\ HitsBelowCap(store, k)
  /\ store' = CacheGet(store, k, now).store
  /\ last' = [op |-> "get", key |-> k, ret |-> CacheGet(store, k, now).ret]
  /\ UNCHANGED <<now, maxSize, evicted>>

Has(k) ==
  /\ store' = CacheHas(store, k, now).store
  /\ last' = [op |-> "has", key |-> k, ret |-> CacheHas(store, k, now).ret]
  /\ UNCHANGED <<now, maxSize, evicted>>

Delete(k) ==
  /\ store' = CacheDelete(store, k).store
  /\ last' = [op |-> "delete", key |-> k, ret |-> CacheDelete(store, k).ret]
  /\ UNCHANGED <<now, maxSize, evicted>>

Clear ==
  /\ store' = <<>>
  /\ last' = [op |-> "clear", key |-> Null, ret |-> Null]
  /\ UNCHANGED <<now, maxSize, evicted>>

Stats ==
  /\ last' = [op |-> "getStats", key |-> Null, ret |-> GetStats(store, now, maxSize)]
  /\ UNCHANGED <<store, now, maxSize, evicted>>

\* the setInterval callback
Sweep ==
  /\ store' = Cleanup(store, now)
  /\ last' = [op |-> "_cleanup", key |-> Null, ret |-> Null]
  /\ UNCHANGED <<now, maxSize, evicted>>

Tick ==
  /\ now < MaxTime
  /\ now' = now + 1
  /\ last' = [op |-> "tick", key |-> Null, ret |-> Null]
  /\ UNCHANGED <<store, maxSize, evicted>>

shadowVars == <<shadow, diverged, rq, clients, nws, tool, nw, tr, fireIndices, fn, co, req>>

InitCache ==
  /\ store = <<>>
  /\ now = 0
  /\ maxSize \in CacheSizes
  /\ last = [op |-> "new", key |-> Null, ret |-> Null]
  /\ shadow = <<>>
  /\ evicted = FALSE
  /\ diverged = FALSE
  /\ rq = IdleRequest
  /\ clients = <<"synoptic", "mesowest">>
  /\ nws = TRUE
  /\ req = [r \in Reqs |-> IdleCall]
  /\ tool = IdleTool
  /\ nw = IdleNws
  /\ tr = IdleTransform
  /\ fireIndices = TRUE
  /\ fn = IdleFn
  /\ co = IdleFetch

NextCache ==
  \/ \E k \in Keys, v \in Values, ttl \in TTLs : Set(k, v, ttl) /\ UNCHANGED shadowVars
  \/ \E k \in Keys : Get(k) /\ UNCHANGED shadowVars
  \/ \E k \in Keys : Has(k) /\ UNCHANGED shadowVars
  \/ \E k \in Keys : Delete(k) /\ UNCHANGED shadowVars
  \/ Clear /\ UNCHANGED shadowVars
  \/ Stats /\ UNCHANGED shadowVars
  \/ Sweep /\ UNCHANGED shadowVars
  \/ Tick /\ UNCHANGED shadowVars

SpecCache == InitCache /\ [][NextCache]_vars

----------------------------------------------------------------------------
(* The same call sequence replayed on a cache whose timer never fires:     *)
(* every set/get/has/delete is applied to store and to shadow at the same  *)
(* time; only the sweep touches store alone.                               *)

BothSet(k, v, ttl) ==
  /\ store' = CacheSet(store, k, v, ttl, now, maxSize)
  /\ shadow' = CacheSet(shadow, k, v, ttl, now, maxSize)
  /\ evicted' = (evicted \/ WouldEvict(store, k) \/ WouldEvict(shadow, k))
  /\ UNCHANGED <<now, maxSize, last, diverged, rq, clients, nws, tool, nw, tr, fireIndices, fn, co, req>>

BothGet(k) ==
  /\ HitsBelowCap(store, k)
  /\ HitsBelowCap(shadow, k)
  /\ store' = CacheGet(store, k, now).store
  /\ shadow' = CacheGet(shadow, k, now).store
  /\ diverged' = (diverged \/ CacheGet(store, k, now).ret # CacheGet(shadow, k, now).ret)
  /\ UNCHANGED <<now, maxSize, last, evicted, rq, clients, nws, tool, nw, tr, fireIndices, fn, co, req>>

BothHas(k) ==
  /\ store' = CacheHas(store, k, now).store
  /\ shadow' = CacheHas(shadow, k, now).store
  /\ diverged' = (diverged \/ CacheHas(store, k, now).ret # CacheHas(shadow, k, now).ret)
  /\ UNCHANGED <<now, maxSize, last, evicted, rq, clients, nws, tool, nw, tr, fireIndices, fn, co, req>>

BothDelete(k) ==
  /\ store' = CacheDelete(store, k).store
  /\ shadow' = CacheDelete(shadow, k).store
  /\ UNCHANGED <<now, maxSize, last, evicted, diverged, rq, clients, nws, tool, nw, tr, fireIndices, fn, co, req>>

SweepLive ==
  /\ store' = Cleanup(store, now)
  /\ UNCHANGED <<now, maxSize, last, shadow, evicted, diverged, rq, clients, nws, tool, nw, tr, fireIndices, fn, co, req>>

TickBoth ==
  /\ now < MaxTime
  /\ now' = now + 1
  /\ UNCHANGED <<store, maxSize, last, shadow, evicted, diverged, rq, clients, nws, tool, nw, tr, fireIndices, fn, co, req>>

NextSweep ==
  \/ \E k \in Keys, v \in Values, ttl \in TTLs : BothSet(k, v, ttl)
  \/ \E k \in Keys : BothGet(k)
  \/ \E k \in Keys : BothHas(k)
  \/ \E k \in Keys : BothDelete(k)
  \/ SweepLive
  \/ TickBoth

SpecSweep == InitCache /\ [][NextSweep]_vars

----------------------------------------------------------------------------
(* ClientManager: cache-or-fetch with sequential provider failover *)

\* the requests explored: <<operation, arguments>>; the pair is the cache key
Kinds == {<<"current", "S1">>, <<"search", "Q1">>, <<"historical", "H1">>,
          <<"nws:alerts", "L1">>}

\* what a failing provider call throws: the error and the call that threw it
FailureCodes == {"STATION_NOT_FOUND", "HTTP_503"}

GenericFailure == [code |-> "All data sources failed", from |-> "none"]

\* ClientManager.constructor: the providers whose isAvailable() is true, in order
AvailableClients(synopticToken, mesowestToken) ==
  SelectSeq(<<[name |-> "synoptic", ok |-> synopticToken],
              [name |-> "mesowest", ok |-> mesowestToken]>>,
            LAMBDA c : c.ok)

ClientNames(cs) == [i \in 1..Len(cs) |-> cs[i].name]

\* the ttl each operation passes to cache.set
TtlOf(op) ==
  IF op = "current" THEN CurrentTTL
  ELSE IF op = "search" THEN SearchTTL
  ELSE IF op = "historical" THEN HistoricalTTL
  ELSE AlertsTTL

\* what provider `name` returns for a request of this kind
ProviderData(kind, name) == <<kind[1], kind[2], name>>

\* a variant of the loop that tags every result with the first provider's name
SourceOfFirst(cs, i) == cs[1]

\* the `name` of the loop iteration, written to _meta.source
SourceOf(cs, i) == cs[i]

\* the value returned and cached on success: current and historical results
\* carry _meta.source, a station list is stored as returned
Tagged(kind, data, i) ==
  IF kind[1] \in {"current", "historical"}
  THEN Append(data, SourceOf(clients, i))
  ELSE Append(data, "untagged")

\* NWSClient.getAlerts returns [] when the request fails
EmptyAlerts(kind) == <<kind[1], kind[2], "nws", "[]">>

\* a variant of the loop that starts every remaining provider at once
CallAllFrom(cs, i) ==
  [j \in 1..(Len(cs) - i + 1) |-> [name |-> cs[i + j - 1], res |-> "pending", err |-> NoFailure]]

\* the provider call made by loop iteration i
CallAt(cs, i) == <<[name |-> cs[i], res |-> "pending", err |-> NoFailure]>>

\* a variant of the catch block that keeps the first error
KeepFirstError(prev, error) == IF prev = NoFailure THEN error ELSE prev

\* catch (error) { lastError = error }
CaughtError(prev, error) == error

Pending(c) == {i \in 1..Len(c) : c[i].res = "pending"}

\* getCurrentObservation / searchStations / getHistoricalObservations /
\* getNWSAlerts up to the first await: the cache lookup and, on a miss, the
\* first provider call
StartRequest(r, kind) ==
  /\ req[r].pc = "idle"
  /\ IF kind[1] = "nws:alerts" /\ ~nws
     THEN /\ req' = [req EXCEPT ![r] = [IdleCall EXCEPT !.pc = "done", !.kind = kind,
                                                        !.result = <<kind[1], kind[2], "disabled", "[]">>]]
          /\ UNCHANGED store
     ELSE /\ HitsBelowCap(store, kind)
          /\ LET got == CacheGet(store, kind, now) IN
             /\ store' = got.store
             /\ IF got.ret # Null
                THEN req' = [req EXCEPT ![r] = [IdleCall EXCEPT !.pc = "done", !.kind = kind,
                                                                !.result = got.ret]]
                ELSE req' = [req EXCEPT ![r] =
                        [IdleCall EXCEPT !.pc = "calling", !.kind = kind,
                           !.calls = IF kind[1] = "nws:alerts"
                                     THEN CallAt(<<"nws">>, 1)
                                     ELSE CallAt(clients, 1)]]
  /\ UNCHANGED <<now, maxSize, last, shadow, evicted, diverged, rq, clients, nws, tool, nw, tr, fireIndices, fn, co>>

\* the awaited provider call i of request r resolves
ProviderOk(r, i) ==
  /\ req[r].pc = "calling"
  /\ i \in Pending(req[r].calls)
  /\ LET kind == req[r].kind
         data == ProviderData(kind, req[r].calls[i].name)
         result == IF kind[1] = "nws:alerts" THEN Append(data, "alerts")
                   ELSE Tagged(kind, data, i)
     IN /\ store' = CacheSet(store, kind, result, TtlOf(kind[1]), now, maxSize)
        /\ evicted' = (evicted \/ WouldEvict(store, kind))
        /\ req' = [req EXCEPT ![r].pc = "done", ![r].calls[i].res = "ok",
                              ![r].result = result]
  /\ UNCHANGED <<now, maxSize, last, shadow, diverged, rq, clients, nws, tool, nw, tr, fireIndices, fn, co>>

\* the awaited provider call i of request r rejects with `code`
ProviderFail(r, i, code) ==
  /\ req[r].pc = "calling"
  /\ i \in Pending(req[r].calls)
  /\ LET kind == req[r].kind
         error == [code |-> code, from |-> req[r].calls[i].name]
         failed == [req[r].calls EXCEPT ![i].res = "fail", ![i].err = error]
     IN IF kind[1] = "nws:alerts"
        THEN \* NWSClient.getAlerts catches and returns []; getNWSAlerts caches it
             /\ store' = CacheSet(store, kind, EmptyAlerts(kind), TtlOf(kind[1]), now, maxSize)
             /\ evicted' = (evicted \/ WouldEvict(store, kind))
             /\ req' = [req EXCEPT ![r].pc = "done", ![r].calls = failed,
                                   ![r].result = EmptyAlerts(kind)]
        ELSE /\ UNCHANGED <<store, evicted>>
             /\ IF i < Len(clients)
                THEN req' = [req EXCEPT ![r].calls = failed \o CallAt(clients, i + 1),
                                        ![r].lastError = CaughtError(req[r].lastError, error)]
                ELSE LET lastError == CaughtError(req[r].lastError, error) IN
                     req' = [req EXCEPT ![r].pc = "failed", ![r].calls = failed,
                                        ![r].lastError =
                                           IF lastError # NoFailure THEN lastError
                                           ELSE GenericFailure]
  /\ UNCHANGED <<now, maxSize, last, shadow, diverged, rq, clients, nws, tool, nw, tr, fireIndices, fn, co>>

\* the caller has taken the outcome; the slot serves the next request
Finish(r) ==
  /\ req[r].pc \in {"done", "failed"}
  /\ req' = [req EXCEPT ![r] = IdleCall]
  /\ UNCHANGED <<store, now, maxSize, last, shadow, evicted, diverged, rq, clients, nws, tool, nw, tr, fireIndices, fn, co>>

\* the instants explored: start, a millisecond later, and the same two one
\* current-data TTL later (where entries stored at the first two expire)
Instants == {0, 1, CurrentTTL, CurrentTTL + 1}

\* time passes between events: the clock moves to a later instant
Elapse(t) ==
  /\ t > now
  /\ now' = t
  /\ UNCHANGED <<store, maxSize, last, shadow, evicted, diverged, rq, clients, nws, tool, nw, tr, fireIndices, fn, co, req>>

\* the cache's interval timer fires
TimerSweep ==
  /\ store' = Cleanup(store, now)
  /\ UNCHANGED <<now, maxSize, last, shadow, evicted, diverged, rq, clients, nws, tool, nw, tr, fireIndices, fn, co, req>>

InitCoord ==
  /\ store = <<>>
  /\ now = 0
  /\ maxSize \in CacheSizes
  /\ last = [op |-> "new", key |-> Null, ret |-> Null]
  /\ shadow = <<>>
  /\ evicted = FALSE
  /\ diverged = FALSE
  /\ rq = IdleRequest
  /\ \E synopticToken \in BOOLEAN, mesowestToken \in BOOLEAN :
       /\ synopticToken \/ mesowestToken
       /\ clients = ClientNames(AvailableClients(synopticToken, mesowestToken))
  /\ nws \in BOOLEAN
  /\ req = [r \in Reqs |-> IdleCall]
  /\ tool = IdleTool
  /\ nw = IdleNws
  /\ tr = IdleTransform
  /\ fireIndices = TRUE
  /\ fn = IdleFn
  /\ co = IdleFetch

NextCoord ==
  \/ \E r \in Solo, kind \in Kinds : StartRequest(r, kind)
  \/ \E r \in Solo, i \in 1..2 : ProviderOk(r, i)
  \/ \E r \in Solo, i \in 1..2, code \in FailureCodes : ProviderFail(r, i, code)
  \/ \E r \in Solo : Finish(r)
  \/ \E t \in Instants : Elapse(t)
  \/ TimerSweep

SpecCoord == InitCoord /\ [][NextCoord]_vars

\* the requests several callers have in flight at once: two stations' current
\* observations, each its own cache key
SharedKinds == {<<"current", "S1">>, <<"current", "S2">>}

\* coordinator calls of several callers, interleaved at their awaits: every
\* action is the synchronous code between two awaits of one call
NextShared ==
  \/ \E r \in Reqs, kind \in SharedKinds : StartRequest(r, kind)
  \/ \E r \in Reqs, i \in 1..2 : ProviderOk(r, i)
  \/ \E r \in Reqs, i \in 1..2, code \in FailureCodes : ProviderFail(r, i, code)
  \/ \E r \in Reqs : Finish(r)
  \/ \E t \in Instants : Elapse(t)
  \/ TimerSweep

\* the alert service plays no part in these calls
InitShared == InitCoord /\ ~nws

SpecShared == InitShared /\ [][NextShared]_vars

----------------------------------------------------------------------------
(* One getCurrentObservation call followed down to its HTTP attempts: the  *)
(* provider loop of ClientManager around the retry loop of BaseClient      *)

\* a variant of the provider loop that starts over at the first provider
FirstProviderAgain(i) == 1

\* for (const { name, client } of this.availableClients): the next iteration
NextProvider(i) == i + 1

\* the provider call threw: lastError = error, then the next provider's
\* request sends its first attempt, or the loop is over and lastError is thrown
Failover(c) ==
  IF c.provider < Len(clients)
  THEN [c EXCEPT !.pc = "http", !.provider = NextProvider(c.provider),
                 !.attempt = 0, !.sent = @ + 1]
  ELSE [c EXCEPT !.pc = "failed"]

\* getCurrentObservation(stationId) up to its first await: the cache lookup
\* and, on a miss, the first attempt of the first provider's request
FetchStart(key) ==
  /\ co.pc = "idle"
  /\ HitsBelowCap(store, key)
  /\ LET got == CacheGet(store, key, now) IN
     /\ store' = got.store
     /\ co' = IF got.ret # Null
              THEN [IdleFetch EXCEPT !.pc = "returned", !.key = key]
              ELSE [IdleFetch EXCEPT !.pc = "http", !.key = key, !.provider = 1,
                                     !.sent = 1]
  /\ UNCHANGED <<now, maxSize, last, shadow, evicted, diverged, rq, clients, nws, tool,
                 nw, tr, fireIndices, fn, req>>

\* the HTTP attempt resolves: request returns response.data; a body with a
\* station is tagged, cached and returned, one without makes the provider
\* call throw STATION_NOT_FOUND
AttemptOk(found) ==
  /\ co.pc = "http"
  /\ IF found
     THEN /\ store' = CacheSet(store, co.key,
                               Tagged(co.key, ProviderData(co.key, clients[co.provider]),
                                      co.provider),
                               CurrentTTL, now, maxSize)
          /\ evicted' = (evicted \/ WouldEvict(store, co.key))
          /\ co' = [co EXCEPT !.pc = "returned"]
     ELSE /\ co' = Failover(co)
          /\ UNCHANGED <<store, evicted>>
  /\ UNCHANGED <<now, maxSize, last, shadow, diverged, rq, clients, nws, tool, nw, tr,
                 fireIndices, fn, req>>

\* the HTTP attempt rejects: the catch block of request
AttemptFail(error) ==
  /\ co.pc = "http"
  /\ LET isLastAttempt == co.attempt = MaxRetries - 1
         shouldRetry == ShouldRetry(error)
     IN co' = IF isLastAttempt \/ ~shouldRetry
              THEN Failover(co)
              ELSE [co EXCEPT !.pc = "sleep"]
  /\ UNCHANGED <<store, now, maxSize, last, shadow, evicted, diverged, rq, clients, nws,
                 tool, nw, tr, fireIndices, fn, req>>

\* _sleep(delay) resolves: attempt++, the loop condition, the next attempt
WakeUp ==
  /\ co.pc = "sleep"
  /\ co.attempt + 1 < MaxRetries
  /\ co' = [co EXCEPT !.pc = "http", !.attempt = @ + 1, !.sent = @ + 1]
  /\ UNCHANGED <<store, now, maxSize, last, shadow, evicted, diverged, rq, clients, nws,
                 tool, nw, tr, fireIndices, fn, req>>

\* the caller has taken the outcome
FetchDone ==
  /\ co.pc \in {"returned", "failed"}
  /\ co' = IdleFetch
  /\ UNCHANGED <<store, now, maxSize, last, shadow, evicted, diverged, rq, clients, nws,
                 tool, nw, tr, fireIndices, fn, req>>

AttemptCompletes ==
  \/ \E found \in BOOLEAN : AttemptOk(found)
  \/ \E error \in HttpErrors : AttemptFail(error)

NextFetch ==
  \/ \E key \in SharedKinds : FetchStart(key)
  \/ \E found \in BOOLEAN : AttemptOk(found)
  \/ \E error \in HttpErrors : AttemptFail(error)
  \/ WakeUp
  \/ FetchDone
  \/ \E t \in Instants : Elapse(t)

SpecFetch == InitCoord /\ [][NextFetch]_vars

\* every HTTP attempt completes and every sleep timer fires
SpecFetchFair == SpecFetch /\ WF_vars(AttemptCompletes) /\ WF_vars(WakeUp)

----------------------------------------------------------------------------
(* Properties of the cache *)

\* an entry for k is stored and the clock is strictly before its expiry time
Visible(s, k, t) == StoreHas(s, k) /\ t < EntryOf(s, k).expiresAt

VisibleCount(s, t) == Cardinality({k \in StoreKeys(s) : Visible(s, k, t)})

\* C6: every lookup (get, has, the active/expired counts of getStats) treats
\* an entry as present iff it is stored and now < expiresAt; at now >= expiresAt
\* it is absent to every lookup even while still stored.
C6_LookupPresentIffBeforeExpiry ==
  [][ /\ last'.op = "get" => ((last'.ret # Null) <=> Visible(store, last'.key, now))
      /\ last'.op = "has" => (last'.ret <=> Visible(store, last'.key, now))
      /\ last'.op = "getStats" =>
           /\ last'.ret.activeEntries = VisibleCount(store, now)
           /\ last'.ret.expiredEntries = Len(store) - VisibleCount(store, now)
    ]_vars

\* C7: a get on an expired entry (stored, now >= expiresAt) behaves like a get
\* on a key never set: it returns null and records no hit and no access on
\* the entry, so that later lookups keep reporting it absent.
C7_GetOnExpiredIsMiss ==
  [][ (/\ last'.op = "get"
       /\ StoreHas(store, last'.key)
       /\ now >= EntryOf(store, last'.key).expiresAt)
      => /\ last'.ret = Null
         /\ StoreHas(store', last'.key)
              => EntryOf(store', last'.key) = EntryOf(store, last'.key)
    ]_vars

\* C6 in the code: has reports an entry present at the instant of its expiry
C6_PresentAtExpiry ==
  /\ last.op = "has"
  /\ last.ret = TRUE
  /\ StoreHas(store, last.key)
  /\ now = EntryOf(store, last.key).expiresAt

\* C7 in the code: a get at the instant of expiry returned the value and
\* recorded the hit and the access on the entry
C7_HitAtExpiry ==
  /\ last.op = "get"
  /\ last.ret # Null
  /\ StoreHas(store, last.key)
  /\ now = EntryOf(store, last.key).expiresAt
  /\ EntryOf(store, last.key).hits > 0
  /\ EntryOf(store, last.key).lastAccessed = now

\* C8: a set for a key not stored, on a cache holding maxSize entries, removes
\* exactly one entry, one whose lastAccessed is the oldest of all stored
\* entries, and leaves the others as they were; a set for a stored key
\* removes nothing.
C8_SetEvictsExactlyLRU ==
  [][ last'.op = "set" =>
        LET k == last'.key IN
        /\ (~StoreHas(store, k) /\ Len(store) = maxSize) =>
             \E victim \in StoreKeys(store) :
               /\ \A j \in 1..Len(store) :
                    EntryOf(store, victim).lastAccessed <= store[j].lastAccessed
               /\ StoreKeys(store') = (StoreKeys(store) \ {victim}) \cup {k}
               /\ Len(store') = maxSize
               /\ \A k2 \in StoreKeys(store) \ {victim} :
                    EntryOf(store', k2) = EntryOf(store, k2)
        /\ StoreHas(store, k) =>
             /\ StoreKeys(store') = StoreKeys(store)
             /\ Len(store') = Len(store)
             /\ \A k2 \in StoreKeys(store) \ {k} :
                  EntryOf(store', k2) = EntryOf(store, k2)
    ]_vars

\* C8 witness: a set has just evicted from a full two-entry cache, and the
\* entry that survived had been read at a later time than it was stored
C8_EvictedAtCapacity ==
  /\ last.op = "set"
  /\ evicted
  /\ maxSize = 2
  /\ Len(store) = 2
  /\ store[2].key = last.key
  /\ store[1].hits > 0
  /\ store[1].lastAccessed > store[1].createdAt

\* C9 as stated: running the sweep at any points of a set/get/has/delete
\* sequence never changes what any get or has of the sequence returns.
C9_SweepNeverChangesResults == ~diverged

\* C9 amended: as long as no set of the sequence has to evict for capacity,
\* the sweep changes the result of no get or has of the sequence.
C9_SweepInvisibleWithoutEviction == ~evicted => ~diverged

\* C9 witness: the sweep has removed an entry that the never-swept cache still
\* holds, a get has hit at the current time, and every result so far agreed
C9_SweptAndAgreed ==
  /\ ~evicted
  /\ ~diverged
  /\ Len(store) < Len(shadow)
  /\ \E i \in 1..Len(store) : store[i].hits > 0 /\ store[i].lastAccessed = now

----------------------------------------------------------------------------
(* Properties of the coordinator *)

FailoverOps == {"current", "search", "historical"}

Active(r) == req[r].pc # "idle"

\* C1: on a cache miss getCurrentObservation asks the available providers one
\* after another in priority order (synoptic before mesowest), moves on after
\* any failure, and returns the first successful provider's data tagged with
\* that provider's name.
C1_FailoverInPriorityOrder ==
  /\ clients \in {<<"synoptic", "mesowest">>, <<"synoptic">>, <<"mesowest">>}
  /\ \A r \in Reqs :
       (Active(r) /\ req[r].kind[1] = "current") =>
         LET c == req[r].calls
             n == Len(c)
         IN /\ n <= Len(clients)
            /\ \A i \in 1..n : c[i].name = clients[i]
            /\ \A i \in 1..(n - 1) : c[i].res = "fail"
            /\ req[r].pc = "calling" => (n > 0 /\ c[n].res = "pending")
            /\ req[r].pc = "failed" => (n = Len(clients) /\ c[n].res = "fail")
            /\ (req[r].pc = "done" /\ n > 0) =>
                 /\ c[n].res = "ok"
                 /\ req[r].result = <<"current", req[r].kind[2], c[n].name, c[n].name>>

\* C1 witness: the primary failed with station-not-found and the backup served
C1_ServedByBackup ==
  \E r \in Reqs :
    /\ req[r].pc = "done"
    /\ req[r].kind = <<"current", "S1">>
    /\ Len(req[r].calls) = 2
    /\ req[r].calls[1].name = "synoptic"
    /\ req[r].calls[1].err.code = "STATION_NOT_FOUND"
    /\ req[r].calls[2].name = "mesowest"
    /\ req[r].calls[2].res = "ok"
    /\ req[r].result[4] = "mesowest"

\* C2: for current, search and historical requests the cache is consulted
\* first, and a request that finds a live entry (stored, now < expiresAt) for
\* its key returns that entry's value and calls no provider.
C2_LiveEntryServedWithoutUpstream ==
  [][ \A r \in Reqs :
        (/\ req[r].pc = "idle"
         /\ req'[r].pc # "idle"
         /\ req'[r].kind[1] \in FailoverOps
         /\ Visible(store, req'[r].kind, now))
        => /\ req'[r].pc = "done"
           /\ req'[r].result = EntryOf(store, req'[r].kind).value
           /\ req'[r].calls = <<>>
    ]_vars

\* C2 witness: a station search answered from the cache
C2_SearchServedFromCache ==
  \E r \in Reqs :
    /\ req[r].pc = "done"
    /\ req[r].kind = <<"search", "Q1">>
    /\ req[r].calls = <<>>
    /\ req[r].result # Null
    /\ StoreHas(store, req[r].kind)
    /\ EntryOf(store, req[r].kind).hits > 0
    /\ EntryOf(store, req[r].kind).value = req[r].result

\* C3: when every available provider fails, the request fails with exactly
\* the failure raised by the last provider tried.
C3_LastFailurePropagated ==
  \A r \in Reqs :
    req[r].pc = "failed" =>
      LET c == req[r].calls IN
      /\ Len(c) = Len(clients)
      /\ req[r].lastError = c[Len(c)].err
      /\ req[r].lastError.from = clients[Len(clients)]
      /\ req[r].lastError # GenericFailure

\* C3 witness: two providers failed differently on a historical request
C3_BothProvidersFailed ==
  \E r \in Reqs :
    /\ req[r].pc = "failed"
    /\ req[r].kind[1] = "historical"
    /\ Len(req[r].calls) = 2
    /\ req[r].calls[1].err.code = "HTTP_503"
    /\ req[r].calls[2].err.code = "STATION_NOT_FOUND"
    /\ req[r].lastError.code = "STATION_NOT_FOUND"

\* C4: within one request at most one provider call is outstanding, a
\* provider is called only after every earlier call has failed, and no
\* provider is asked twice.
C4_OneCallAtATime ==
  \A r \in Reqs :
    LET c == req[r].calls IN
    /\ Cardinality(Pending(c)) <= 1
    /\ \A i \in Pending(c) : \A j \in 1..(i - 1) : c[j].res = "fail"
    /\ \A i, j \in 1..Len(c) : i # j => c[i].name # c[j].name

\* C4 witness: the second provider is being asked after the first failed
C4_SecondCallAfterFailure ==
  \E r \in Reqs :
    /\ req[r].pc = "calling"
    /\ Len(req[r].calls) = 2
    /\ req[r].calls[1].res = "fail"
    /\ req[r].calls[2].res = "pending"

\* C5: a request whose upstream fetch fails (a provider call of a failover
\* request, or the alerts fetch) leaves the cache contents unchanged: entries
\* are created or replaced only by a successful fetch.
C5_FailedFetchLeavesCacheUnchanged ==
  [][ \A r \in Reqs :
        (\E i \in 1..Len(req[r].calls) :
           /\ req[r].calls[i].res = "pending"
           /\ req'[r].calls[i].res = "fail")
        => store' = store
    ]_vars

\* C5 in the code: an alerts request answered from the cache with the empty
\* list that a failed fetch had stored
C5_EmptyAlertsServedFromCache ==
  \E r \in Reqs :
    /\ req[r].pc = "done"
    /\ req[r].kind[1] = "nws:alerts"
    /\ req[r].calls = <<>>
    /\ nws
    /\ req[r].result = EmptyAlerts(req[r].kind)

----------------------------------------------------------------------------
(* Properties of the retrying request *)

C11_NetworkBackoffExponential ==
  /\ rq.sent <= MaxRetries
  /\ \A i \in 1..Len(rq.log) :
       rq.log[i].error.code \in NetworkCodes =>
         rq.log[i].delay = Pow2(rq.log[i].attempt) * 1000
  /\ (rq.pc \in {"sleep", "thrown"} /\ rq.lastError.code \in NetworkCodes) =>
       IF rq.sent < MaxRetries
       THEN rq.pc = "sleep"
       ELSE rq.pc = "thrown" /\ rq.thrown.code = <<rq.lastError.code>>

\* C11 in the code: the second attempt failed on the network too and the
\* sleep after it is the same 1000 ms as the first
C11_SecondNetworkSleepFixed ==
  /\ rq.pc = "sleep"
  /\ Len(rq.log) = 2
  /\ rq.log[1].error.code = "ETIMEDOUT" /\ rq.log[1].delay = 1000
  /\ rq.log[2].error.code = "ECONNRESET" /\ rq.log[2].attempt = 1
  /\ rq.log[2].delay = 1000

\* C12: a response with a 4xx status other than 429 is never retried: no
\* sleep follows it, the request throws the normalized error of that status
\* at once, and when it answers the first attempt exactly one attempt is made.
C12_ClientErrorNotRetried ==
  /\ \A i \in 1..Len(rq.log) : rq.log[i].error \notin ClientErrors
  /\ (rq.pc \in {"sleep", "thrown"} /\ rq.lastError \in ClientErrors) =>
       /\ rq.pc = "thrown"
       /\ rq.thrown = [code |-> <<"HTTP", rq.lastError.status>>,
                       status |-> rq.lastError.status, type |-> "http"]
       /\ rq.sent = Len(rq.log) + 1
       /\ Len(rq.log) = 0 => rq.sent = 1

\* C12 witness: a 404 answered the first attempt and was thrown at once
C12_NotFoundThrownAtOnce ==
  /\ rq.pc = "thrown"
  /\ rq.lastError.status = 404
  /\ rq.sent = 1
  /\ rq.log = <<>>
  /\ rq.thrown.code = <<"HTTP", 404>>

----------------------------------------------------------------------------
(* Transformer: red-flag warnings.  Humidity and wind values are in tenths *)
(* of a unit (125 is 12.5), so that rounding and thresholds are exact.     *)

\* Math.round(value) of a non-negative value given in tenths
Round(x) == (x + 5) \div 10

Max(a, b) == IF a >= b THEN a ELSE b

\* an absent (null) observation value
Absent == 0 - 1

\* isRedFlagConditions(relativeHumidity, windSpeed, strict = false)
IsRedFlagConditions(relativeHumidity, windSpeed, strict) ==
  IF relativeHumidity = Absent \/ windSpeed = Absent THEN FALSE
  ELSE IF strict
       THEN relativeHumidity < 150 /\ windSpeed > 250
       ELSE \/ relativeHumidity < 150 /\ windSpeed > 250
            \/ relativeHumidity < 200 /\ windSpeed > 200

\* the alert events and timestamps explored; a timestamp of 0 is an absent one
AlertEvents == {"Red Flag Warning", "Fire Weather Watch", "Heat Advisory"}

NwsAlertRecords ==
  {[event |-> e, onset |-> t[1], expires |-> t[2], headline |-> <<e, "headline">>] :
     e \in AlertEvents, t \in {<<5, 9>>}} \cup
  {[event |-> "Red Flag Warning", onset |-> 0, expires |-> 0,
    headline |-> <<"Red Flag Warning", "headline">>]}

RECURSIVE SeqsUpTo(_, _)
SeqsUpTo(S, n) ==
  IF n = 0 THEN {<<>>}
  ELSE SeqsUpTo(S, n - 1) \cup
       {Append(q, x) : q \in {p \in SeqsUpTo(S, n - 1) : Len(p) = n - 1}, x \in S}

AlertLists == SeqsUpTo(NwsAlertRecords, MaxAlerts)

\* the observations explored: humidity and wind speed around the thresholds
\* (present, as validateRequiredFields has passed), gust absent, zero or high
RedFlagInputs ==
  {[relativeHumidity |-> rh, windSpeed |-> w, windGust |-> g] :
     rh \in {149, 150, 199, 200, 249, 250},
     w \in {150, 151, 200, 201, 250, 251},
     g \in {Absent, 0, 260}}

IsFireAlert(alert) ==
  alert.event = "Red Flag Warning" \/ alert.event = "Fire Weather Watch"

\* the entry pushed for one fire-weather alert
AlertWarning(alert, t) ==
  [start_time |-> IF alert.onset # 0 THEN alert.onset ELSE t,
   end_time |-> IF alert.expires # 0 THEN alert.expires ELSE t + SixHours,
   level |-> IF alert.event = "Red Flag Warning" THEN "Red Flag" ELSE "Watch",
   description |-> alert.headline]

\* the for-loop over nwsAlerts
RECURSIVE AlertWarnings(_, _)
AlertWarnings(alerts, t) ==
  IF Len(alerts) = 0 THEN <<>>
  ELSE LET rest == AlertWarnings(SubSeq(alerts, 1, Len(alerts) - 1), t)
           alert == alerts[Len(alerts)]
       IN IF IsFireAlert(alert) THEN Append(rest, AlertWarning(alert, t)) ELSE rest

\* a variant of the guard that runs threshold detection whatever was pushed
ThresholdAlways(warnings) == TRUE

\* if (warnings.length === 0)
ThresholdApplies(warnings) == Len(warnings) = 0

\* the threshold branch: at most one entry
ThresholdWarnings(raws, t) ==
  LET gust == IF raws.windGust = Absent \/ raws.windGust = 0 THEN 0 ELSE raws.windGust
  IN IF IsRedFlagConditions(raws.relativeHumidity, Max(raws.windSpeed, gust), FALSE)
     THEN <<[start_time |-> t, end_time |-> t + SixHours, level |-> "Red Flag",
             description |-> <<"Critical fire weather", Round(raws.relativeHumidity),
                               Round(raws.windSpeed), Round(gust)>>]>>
     ELSE IF raws.relativeHumidity < 250 /\ raws.windSpeed > 150
          THEN <<[start_time |-> t, end_time |-> t + SixHours, level |-> "Watch",
                  description |-> <<"Elevated fire weather", Round(raws.relativeHumidity),
                                    Round(raws.windSpeed)>>]>>
          ELSE <<>>

\* transformRedFlagWarnings(rawsData, nwsAlerts)
TransformRedFlagWarnings(raws, alerts, t) ==
  LET warnings == AlertWarnings(alerts, t)
  IN IF ThresholdApplies(warnings)
     THEN warnings \o ThresholdWarnings(raws, t)
     ELSE warnings

\* one call of transformRedFlagWarnings
Transform(raws, alerts) ==
  /\ tr.pc = "idle"
  /\ tr' = [pc |-> "done", raws |-> raws, alerts |-> alerts,
            warnings |-> TransformRedFlagWarnings(raws, alerts, now)]
  /\ UNCHANGED <<store, now, maxSize, last, shadow, evicted, diverged, rq, clients, nws, tool, nw, fireIndices, fn, co, req>>

\* the list has been handed to the document; the next call may start
TransformDone ==
  /\ tr.pc = "done"
  /\ tr' = IdleTransform
  /\ UNCHANGED <<store, now, maxSize, last, shadow, evicted, diverged, rq, clients, nws, tool, nw, fireIndices, fn, co, req>>

\* the transformer is synchronous: the clock moves between calls
NextWarn ==
  \/ /\ tr.pc = "idle"
     /\ \E raws \in RedFlagInputs, alerts \in AlertLists : Transform(raws, alerts)
  \/ TransformDone
  \/ \E t \in Instants : tr.pc = "idle" /\ Elapse(t)

InitWarn == InitCache /\ maxSize = 2

SpecWarn == InitWarn /\ [][NextWarn]_vars

----------------------------------------------------------------------------
(* ClientManager.getNWSAlerts / getNWSForecast over NWSClient *)

NwsKey(op) == IF op = "alerts" THEN <<"nws:alerts", "L1">> ELSE <<"nws:forecast", "L1">>

\* a cached or returned alert list (an array, truthy even when empty)
AlertsValue(list) == <<"alerts", list>>

ForecastValue == <<"forecast", "periods">>

\* a variant of the flag test that ignores the flag
NwsAlwaysOn(flag) == TRUE

\* config.features.nwsIntegration as tested by getNWSAlerts and getNWSForecast
NwsEnabled(flag) == flag

\* what the method returns without doing anything when the flag is off
DisabledResult(op) == IF op = "alerts" THEN AlertsValue(<<>>) ELSE Null

\* a variant of NWSClient.getAlerts' catch that returns an alert it did not fetch
StaleAlerts ==
  <<[event |-> "Red Flag Warning", onset |-> 0, expires |-> 0,
     headline |-> <<"Red Flag Warning", "headline">>]>>

\* NWSClient.getAlerts: catch (error) { return []; }
SwallowedAlerts == <<>>

\* the response bodies explored for /alerts/active: no features, one fire
\* alert, one other alert
AlertBodies ==
  {<<>>,
   <<[event |-> "Red Flag Warning", onset |-> 5, expires |-> 9,
      headline |-> <<"Red Flag Warning", "headline">>]>>,
   <<[event |-> "Heat Advisory", onset |-> 5, expires |-> 9,
      headline |-> <<"Heat Advisory", "headline">>]>>}

\* getNWSAlerts / getNWSForecast up to the first await
NwsEnter(op) ==
  IF ~NwsEnabled(nws)
  THEN /\ nw' = [IdleNws EXCEPT !.pc = "done", !.op = op, !.result = DisabledResult(op)]
       /\ UNCHANGED store
  ELSE /\ HitsBelowCap(store, NwsKey(op))
       /\ LET got == CacheGet(store, NwsKey(op), now) IN
          /\ store' = got.store
          /\ IF got.ret # Null
             THEN nw' = [IdleNws EXCEPT !.pc = "done", !.op = op,
                                        !.trace = <<"cache.get">>, !.result = got.ret]
             ELSE nw' = [IdleNws EXCEPT !.pc = IF op = "alerts" THEN "alerts" ELSE "points",
                                        !.op = op,
                                        !.trace = <<"cache.get", "nws.request">>]

\* a caller other than the get_raws_current handler starts a retrieval
NwsCall(op) ==
  /\ nw.pc = "idle"
  /\ tool.pc # "alerts"
  /\ NwsEnter(op)
  /\ UNCHANGED <<now, maxSize, last, shadow, evicted, diverged, rq, clients, nws, tool, tr, fireIndices, fn, co, req>>

\* GET /alerts/active answers: the list is mapped, cached and returned
AlertsOk(body) ==
  /\ nw.pc = "alerts"
  /\ store' = CacheSet(store, NwsKey("alerts"), AlertsValue(body), AlertsTTL, now, maxSize)
  /\ evicted' = (evicted \/ WouldEvict(store, NwsKey("alerts")))
  /\ nw' = [nw EXCEPT !.pc = "done", !.trace = Append(@, "cache.set"),
                      !.result = AlertsValue(body)]
  /\ UNCHANGED <<now, maxSize, last, shadow, diverged, rq, clients, nws, tool, tr, fireIndices, fn, co, req>>

\* GET /alerts/active fails: NWSClient.getAlerts catches it, and getNWSAlerts
\* caches and returns what it was given
AlertsFail ==
  /\ nw.pc = "alerts"
  /\ store' = CacheSet(store, NwsKey("alerts"), AlertsValue(SwallowedAlerts), AlertsTTL,
                       now, maxSize)
  /\ evicted' = (evicted \/ WouldEvict(store, NwsKey("alerts")))
  /\ nw' = [nw EXCEPT !.pc = "done", !.trace = Append(@, "cache.set"),
                      !.failed = TRUE, !.result = AlertsValue(SwallowedAlerts)]
  /\ UNCHANGED <<now, maxSize, last, shadow, diverged, rq, clients, nws, tool, tr, fireIndices, fn, co, req>>

\* GET /points/... answers: the forecast URL is requested next
PointsOk ==
  /\ nw.pc = "points"
  /\ nw' = [nw EXCEPT !.pc = "forecast", !.trace = Append(@, "nws.request")]
  /\ UNCHANGED <<store, now, maxSize, last, shadow, evicted, diverged, rq, clients, nws, tool, tr, fireIndices, fn, co, req>>

\* the forecast request answers, with or without periods; a forecast is cached
ForecastOk(hasPeriods) ==
  /\ nw.pc = "forecast"
  /\ IF hasPeriods
     THEN /\ store' = CacheSet(store, NwsKey("forecast"), ForecastValue, ForecastTTL, now, maxSize)
          /\ evicted' = (evicted \/ WouldEvict(store, NwsKey("forecast")))
          /\ nw' = [nw EXCEPT !.pc = "done", !.trace = Append(@, "cache.set"),
                              !.result = ForecastValue]
     ELSE /\ nw' = [nw EXCEPT !.pc = "done", !.result = Null]
          /\ UNCHANGED <<store, evicted>>
  /\ UNCHANGED <<now, maxSize, last, shadow, diverged, rq, clients, nws, tool, tr, fireIndices, fn, co, req>>

\* either forecast request fails: NWSClient.getForecast returns null
ForecastFail ==
  /\ nw.pc \in {"points", "forecast"}
  /\ nw' = [nw EXCEPT !.pc = "done", !.result = Null]
  /\ UNCHANGED <<store, now, maxSize, last, shadow, evicted, diverged, rq, clients, nws, tool, tr, fireIndices, fn, co, req>>

\* the other caller has taken the result
NwsReturn ==
  /\ nw.pc = "done"
  /\ tool.pc # "alerts"
  /\ nw' = IdleNws
  /\ UNCHANGED <<store, now, maxSize, last, shadow, evicted, diverged, rq, clients, nws, tool, tr, fireIndices, fn, co, req>>

----------------------------------------------------------------------------
(* Tool handlers: argument values, validators, adapters, transformer *)

\* typeof x === 'number' && !isNaN(x)
IsNumber(x) == x.t = "number"

\* !x
Falsy(x) ==
  \/ x.t \in {"undefined", "nan"}
  \/ x.t = "number" /\ x.n = 0
  \/ x.t = "string" /\ x.s = <<>>

RawsPrefix == <<"R", "A", "W", "S", ":">>

\* s.replace(/^RAWS:/, '')
StripPrefix(s) ==
  IF Len(s) >= 5 /\ SubSeq(s, 1, 5) = RawsPrefix THEN SubSeq(s, 6, Len(s)) ELSE s

UpperChar(c) ==
  CASE c = "c" -> "C" [] c = "r" -> "R" [] c = "a" -> "A" [] c = "w" -> "W"
    [] c = "s" -> "S" [] OTHER -> c

\* s.toUpperCase(), over the characters explored
ToUpperCase(s) == [i \in 1..Len(s) |-> UpperChar(s[i])]

RECURSIVE TrimStart(_)
TrimStart(s) == IF Len(s) > 0 /\ Head(s) = " " THEN TrimStart(Tail(s)) ELSE s

RECURSIVE TrimEnd(_)
TrimEnd(s) ==
  IF Len(s) > 0 /\ s[Len(s)] = " " THEN TrimEnd(SubSeq(s, 1, Len(s) - 1)) ELSE s

\* s.trim()
Trim(s) == TrimEnd(TrimStart(s))

\* [A-Z0-9] with the i flag, over the characters explored
AlnumChars ==
  {"A", "C", "R", "S", "W", "a", "c", "r", "s", "w"} \cup {DigitChars[i] : i \in 1..10}

\* sanitizeStationId: '' for a falsy value, a TypeError for a value without
\* replace(), else prefix removed, upper-cased, trimmed
SanitizeStationId(x) ==
  IF Falsy(x) THEN [threw |-> FALSE, s |-> <<>>]
  ELSE IF x.t # "string" THEN [threw |-> TRUE, s |-> <<>>]
  ELSE [threw |-> FALSE, s |-> Trim(ToUpperCase(StripPrefix(x.s)))]

\* isValidStationId on a string
IsValidStationId(s) ==
  IF s = <<>> THEN FALSE
  ELSE LET normalized == StripPrefix(s)
       IN /\ Len(normalized) >= 4
          /\ Len(normalized) <= 6
          /\ \A i \in 1..Len(normalized) : normalized[i] \in AlnumChars

IsValidLatitude(x) == IsNumber(x) /\ x.n >= 0 - 90 /\ x.n <= 90
IsValidLongitude(x) == IsNumber(x) /\ x.n >= 0 - 180 /\ x.n <= 180
IsValidRadius(x) == IsNumber(x) /\ x.n > 0 /\ x.n <= 500
IsValidTemperature(x) == IsNumber(x) /\ x.n >= 0 - 100 /\ x.n <= 150
IsValidHumidity(x) == IsNumber(x) /\ x.n >= 0 /\ x.n <= 100
IsValidWindSpeed(x) == IsNumber(x) /\ x.n >= 0 /\ x.n <= 200

DefaultRadius == 50
\* radius = 50 in the destructuring
RadiusOrDefault(x) == IF x.t = "undefined" THEN Num(DefaultRadius) ELSE x

\* dates are counted in days and written as decimal day numbers; NoDate: null
NoDate == 0 - 1
MaxRangeDays == 365
Today == 2 * MaxRangeDays

\* parseDate: a Date for a string that parses, else null
ParseDate(x) ==
  IF x.t = "string" /\ Len(x.s) > 0 /\ \A i \in 1..Len(x.s) : x.s[i] \in {DigitChars[j] : j \in 1..10}
  THEN ParseInt(x.s)
  ELSE NoDate

\* validateDateRange on two parsed dates: <<>> when valid, else the error text
ValidateDateRange(startTime, endTime) ==
  IF startTime = NoDate THEN <<"Invalid start time">>
  ELSE IF endTime = NoDate THEN <<"Invalid end time">>
  ELSE IF endTime <= startTime THEN <<"End time must be after start time">>
  ELSE IF endTime > Today THEN <<"End time cannot be in the future">>
  ELSE IF endTime - startTime > MaxRangeDays THEN <<"Date range cannot exceed 1 year">>
  ELSE <<>>

TypeError == Thrown(<<>>, 0, <<"TypeError">>)
InvalidStationData == Thrown(<<>>, 0, <<"Invalid Synoptic station data">>)
MissingRequiredFields == Thrown(<<>>, 0, <<"Missing required fields">>)
ZodError == Thrown(<<>>, 0, <<"ZodError">>)

\* the object thrown by a provider client for an unknown station
StationNotFound == Thrown(<<"STATION_NOT_FOUND">>, 404, <<"Station not found">>)

\* what BaseClient.request throws for an HTTP failure, with the message it carries
UpstreamError(error) ==
  Thrown(NormalizeError(error).code, NormalizeError(error).status,
         <<"message of", error.status, error.code>>)

\* the failures a coordinator call may end with: the last provider's error
TransientErrors ==
  {UpstreamError(e) :
     e \in {x \in ThrottleErrors : x.hint = NoHint} \cup {x \in ServerErrors : x.status = 503}
           \cup {x \in NetworkErrors : x.code = "ETIMEDOUT"}}

CoordErrors ==
  TransientErrors \cup {StationNotFound} \cup {UpstreamError(e) : e \in {x \in ClientErrors : x.status = 400}}

\* catch block of get_raws_current and get_raws_historical
CatchStation(error) ==
  IF error.code = <<"STATION_NOT_FOUND">>
  THEN Failure(<<"STATION_NOT_FOUND">>, 404, <<"Station not found. Please verify">>)
  ELSE Failure(IF error.code # <<>> THEN error.code ELSE <<"UNKNOWN_ERROR">>,
               IF error.status # 0 THEN error.status ELSE 500,
               IF error.message # <<>> THEN error.message ELSE <<"Failed to retrieve">>)

\* catch block of search_raws_stations
CatchSearch(error) ==
  Failure(IF error.code # <<>> THEN error.code ELSE <<"SEARCH_FAILED">>,
          IF error.status # 0 THEN error.status ELSE 500,
          IF error.message # <<>> THEN error.message ELSE <<"Failed to search for stations">>)

\* a variant of executeTool's catch that lets the failure through
RethrowToolError(outcome) == outcome

\* executeTool: try { return await handler(args) } catch (error) { ... }
CatchToolError(outcome) ==
  IF outcome.kind = "throw"
  THEN [kind |-> "return", call |-> "",
        out |-> Failure(<<"TOOL_EXECUTION_ERROR">>, 500,
                        IF outcome.error.message # <<>> THEN outcome.error.message
                        ELSE <<"Tool execution failed">>),
        error |-> NoThrow]
  ELSE outcome

\* how a handler leaves its synchronous part
Return(out) == [kind |-> "return", call |-> "", out |-> out, error |-> NoThrow]
Throw(error) == [kind |-> "throw", call |-> "", out |-> NoEnvelope, error |-> error]
Await(call) == [kind |-> "await", call |-> call, out |-> NoEnvelope, error |-> NoThrow]

RawStations ==
  {Station(TRUE, c, Num(850), Num(120), Num(260), Undefined) : c \in BOOLEAN} \cup
  {Station(TRUE, TRUE, Num(700), Num(400), Num(50), Num(80)),
   Station(TRUE, TRUE, Undefined, Num(400), Num(50), Undefined),
   Station(TRUE, TRUE, Num(700), NaN, Num(50), Undefined),
   Station(TRUE, FALSE, Num(700), Num(400), Undefined, Num(80)),
   Station(TRUE, TRUE, Num(700), Num(1010), Num(50), Undefined),
   Station(FALSE, TRUE, Undefined, Undefined, Undefined, Undefined)}

\* extractValue: the number, or null (Absent) for a missing or NaN reading
ExtractValue(v) == IF v.t = "number" THEN v.n ELSE Absent

\* adaptRawsData / adaptSynopticData
AdaptRawsData(station) ==
  IF ~station.obs
  THEN [threw |-> TRUE, error |-> InvalidStationData, hasCoords |-> FALSE,
        temperature |-> Absent, relativeHumidity |-> Absent, windSpeed |-> Absent,
        windGust |-> Absent]
  ELSE [threw |-> FALSE, error |-> NoThrow, hasCoords |-> station.coords,
        temperature |-> ExtractValue(station.air_temp),
        relativeHumidity |-> ExtractValue(station.relative_humidity),
        windSpeed |-> ExtractValue(station.wind_speed),
        windGust |-> ExtractValue(station.wind_gust)]

\* validateRequiredFields: the names of the required fields that are null
MissingFields(raws) ==
  {f \in {"temperature", "relativeHumidity", "windSpeed"} : raws[f] = Absent}

\* estimateWindGust: Math.round(windSpeed * 1.5), in whole units from tenths
EstimateWindGust(windSpeed) ==
  IF windSpeed = Absent \/ windSpeed = 0 THEN 0 ELSE (15 * windSpeed + 50) \div 100

\* the document built by transformToWildfireSchema
WildfireDocument(raws, alerts, t) ==
  [temperature |-> Round(raws.temperature),
   humidity |-> Round(raws.relativeHumidity),
   speed |-> Round(raws.windSpeed),
   gusts |-> IF raws.windGust # Absent THEN Round(raws.windGust)
             ELSE EstimateWindGust(raws.windSpeed),
   red_flag_warnings |-> TransformRedFlagWarnings(raws, alerts, t)]

\* wildfireSchema.parse: the ranges the schema puts on the numbers
SchemaAccepts(doc) ==
  /\ doc.humidity >= 0
  /\ doc.humidity <= 100
  /\ doc.speed >= 0
  /\ doc.gusts >= 0

\* transformToWildfireSchema(rawsData, { nwsAlerts })
TransformToWildfireSchema(raws, alerts, t) ==
  IF MissingFields(raws) # {}
  THEN [threw |-> TRUE, error |-> MissingRequiredFields, doc |-> <<>>]
  ELSE LET doc == WildfireDocument(raws, alerts, t)
       IN IF SchemaAccepts(doc)
          THEN [threw |-> FALSE, error |-> NoThrow, doc |-> <<doc>>]
          ELSE [threw |-> TRUE, error |-> ZodError, doc |-> <<>>]

\* get_raws_current from the transform step to its return
CurrentFinish(raws, alerts, t) ==
  LET transformed == TransformToWildfireSchema(raws, alerts, t)
  IN IF transformed.threw THEN CatchStation(transformed.error)
     ELSE Success(transformed.doc)

StationIdValues ==
  {Undefined, Num(0), Num(5725), Str(<<>>),
   Str(<<"C", "5", "7", "2", "5">>),
   Str(<<"R", "A", "W", "S", ":", "c", "5", "7", "2", "5">>),
   Str(<<" ", "c", "5", "7", "2", " ">>),
   Str(<<"C", "5", "7">>),
   Str(<<"C", "5", "!", "2", "5">>),
   Str(<<"C", "5", "7", "2", "5", "2", "5">>)}

DateValues == {Undefined, Str(<<"x">>), Str(ToDecimal(Today - MaxRangeDays - 1)),
               Str(ToDecimal(Today - 1)), Str(ToDecimal(Today)), Str(ToDecimal(Today + 1))}

ToolNames ==
  {"get_raws_current", "search_raws_stations", "get_raws_historical",
   "calculate_fire_indices", "no_such_tool"}

ArgsFor(name) ==
  CASE name = "get_raws_current" ->
         {NoArgs} \cup {[EmptyArgs EXCEPT !.station_id = id] : id \in StationIdValues}
    [] name = "search_raws_stations" ->
         {NoArgs} \cup
         {[EmptyArgs EXCEPT !.latitude = lat, !.longitude = lon, !.radius = r] :
            lat \in {Undefined, Num(45), Num(91)},
            lon \in {NaN, Num(0 - 120), Num(0 - 181)},
            r \in {Undefined, Num(0), Num(500), Num(501)}}
    [] name = "get_raws_historical" ->
         {NoArgs} \cup
         {[EmptyArgs EXCEPT !.station_id = id, !.start_time = s, !.end_time = e] :
            id \in {Str(<<"C", "5", "7", "2", "5">>), Num(5725), Str(<<"C", "5", "7">>)},
            s \in DateValues, e \in DateValues}
    [] name = "calculate_fire_indices" ->
         {NoArgs} \cup
         {[EmptyArgs EXCEPT !.temperature = t, !.relative_humidity = rh, !.wind_speed = w] :
            t \in {Undefined, Num(85), Num(151)},
            rh \in {NaN, Num(12), Num(101)},
            w \in {Str(<<"9">>), Num(26), Num(201)}}
    [] OTHER -> {NoArgs, EmptyArgs}

\* the input schemas of the tools, which the server publishes and does not apply
ValidArgs(name, args) ==
  /\ args.given
  /\ CASE name = "get_raws_current" ->
            args.station_id.t = "string" /\ IsValidStationId(Trim(ToUpperCase(StripPrefix(args.station_id.s))))
       [] name = "search_raws_stations" ->
            /\ IsValidLatitude(args.latitude)
            /\ IsValidLongitude(args.longitude)
            /\ IsValidRadius(RadiusOrDefault(args.radius))
       [] name = "get_raws_historical" ->
            /\ args.station_id.t = "string"
            /\ IsValidStationId(Trim(ToUpperCase(StripPrefix(args.station_id.s))))
            /\ ValidateDateRange(ParseDate(args.start_time), ParseDate(args.end_time)) = <<>>
       [] name = "calculate_fire_indices" ->
            /\ IsValidTemperature(args.temperature)
            /\ IsValidHumidity(args.relative_humidity)
            /\ IsValidWindSpeed(args.wind_speed)
       [] OTHER -> FALSE

InvalidStationId == Failure(<<"INVALID_STATION_ID">>, 400, <<"Invalid station ID">>)

\* get_raws_current up to its first await
CurrentEnter(args) ==
  IF ~args.given THEN Throw(TypeError)
  ELSE LET stationId == SanitizeStationId(args.station_id)
       IN IF stationId.threw THEN Return(CatchStation(TypeError))
          ELSE IF ~IsValidStationId(stationId.s) THEN Return(InvalidStationId)
          ELSE Await("getCurrentObservation")

\* search_raws_stations up to its first await
SearchEnter(args) ==
  IF ~args.given THEN Throw(TypeError)
  ELSE IF ~IsValidLatitude(args.latitude)
       THEN Return(Failure(<<"INVALID_LATITUDE">>, 400, <<"Invalid latitude">>))
  ELSE IF ~IsValidLongitude(args.longitude)
       THEN Return(Failure(<<"INVALID_LONGITUDE">>, 400, <<"Invalid longitude">>))
  ELSE IF ~IsValidRadius(RadiusOrDefault(args.radius))
       THEN Return(Failure(<<"INVALID_RADIUS">>, 400, <<"Invalid radius">>))
  ELSE Await("searchStations")

\* get_raws_historical up to its first await
HistoricalEnter(args) ==
  IF ~args.given THEN Throw(TypeError)
  ELSE LET stationId == SanitizeStationId(args.station_id)
           startDate == ParseDate(args.start_time)
           endDate == ParseDate(args.end_time)
       IN IF stationId.threw THEN Return(CatchStation(TypeError))
          ELSE IF ~IsValidStationId(stationId.s) THEN Return(InvalidStationId)
          ELSE IF startDate = NoDate
               THEN Return(Failure(<<"INVALID_START_TIME">>, 400, <<"Invalid start time">>))
          ELSE IF endDate = NoDate
               THEN Return(Failure(<<"INVALID_END_TIME">>, 400, <<"Invalid end time">>))
          ELSE IF ValidateDateRange(startDate, endDate) # <<>>
               THEN Return(Failure(<<"INVALID_DATE_RANGE">>, 400,
                                   ValidateDateRange(startDate, endDate)))
          ELSE Await("getHistoricalObservations")

\* calculate_fire_indices, which awaits nothing outside itself
FireIndicesRun(args, enabled) ==
  IF ~args.given THEN Throw(TypeError)
  ELSE IF ~enabled
       THEN Return(Failure(<<"FEATURE_DISABLED">>, 403, <<"Fire indices calculation is disabled">>))
  ELSE IF ~IsValidTemperature(args.temperature)
       THEN Return(Failure(<<"INVALID_TEMPERATURE">>, 400, <<"Invalid temperature">>))
  ELSE IF ~IsValidHumidity(args.relative_humidity)
       THEN Return(Failure(<<"INVALID_HUMIDITY">>, 400, <<"Invalid relative humidity">>))
  ELSE IF ~IsValidWindSpeed(args.wind_speed)
       THEN Return(Failure(<<"INVALID_WIND_SPEED">>, 400, <<"Invalid wind speed">>))
  ELSE Return(Success(<<"fire indices">>))

\* getToolHandler: the registry
Registered(name) ==
  name \in {"get_raws_current", "search_raws_stations", "get_raws_historical",
            "calculate_fire_indices"}

HandlerEnter(name, args, enabled) ==
  CASE name = "get_raws_current" -> CurrentEnter(args)
    [] name = "search_raws_stations" -> SearchEnter(args)
    [] name = "get_raws_historical" -> HistoricalEnter(args)
    [] OTHER -> FireIndicesRun(args, enabled)

\* executeTool(name, args) up to the handler's first await
ExecuteToolEnter(name, args, enabled) ==
  IF ~Registered(name)
  THEN Return(Failure(<<"TOOL_NOT_FOUND">>, 404, <<"Tool not found">>))
  ELSE CatchToolError(HandlerEnter(name, args, enabled))

----------------------------------------------------------------------------
(* Tool calls: executeTool over the four handlers *)

\* Calls are explored one at a time: a tool call and another caller's alert or
\* forecast retrieval meet through the cache only.

OthersTool == <<now, maxSize, last, shadow, evicted, diverged, rq, clients, nws, tr, fireIndices, fn, co, req>>

\* the server passes a call to executeTool, which runs the handler up to its
\* first await
CallTool(name, args) ==
  /\ tool.pc = "idle"
  /\ nw.pc = "idle"
  /\ LET entered == ExecuteToolEnter(name, args, fireIndices)
     IN tool' = [IdleTool EXCEPT
                   !.pc = CASE entered.kind = "return" -> "returned"
                            [] entered.kind = "throw" -> "threw"
                            [] OTHER -> "coord",
                   !.name = name,
                   !.args = args,
                   !.calls = IF entered.kind = "await" THEN <<entered.call>> ELSE <<>>,
                   !.error = entered.error,
                   !.out = entered.out]
  /\ UNCHANGED <<store, nw>>
  /\ UNCHANGED OthersTool

\* getCurrentObservation resolves: adapt, then the alerts step or the transform
ObservationOk(station) ==
  /\ tool.pc = "coord"
  /\ tool.name = "get_raws_current"
  /\ LET rawsData == AdaptRawsData(station) IN
     IF rawsData.threw
     THEN /\ tool' = [tool EXCEPT !.pc = "returned", !.station = station,
                                  !.out = CatchStation(rawsData.error)]
          /\ UNCHANGED <<store, nw>>
     ELSE IF nws /\ rawsData.hasCoords
          THEN /\ NwsEnter("alerts")
               /\ tool' = [tool EXCEPT !.pc = "alerts", !.station = station,
                                       !.calls = Append(@, "getNWSAlerts")]
          ELSE /\ tool' = [tool EXCEPT !.pc = "returned", !.station = station,
                                       !.out = CurrentFinish(rawsData, <<>>, now)]
               /\ UNCHANGED <<store, nw>>
  /\ UNCHANGED OthersTool

\* getNWSAlerts has returned to the handler: transform and return
ToolAlertsDone ==
  /\ tool.pc = "alerts"
  /\ nw.pc = "done"
  /\ tool' = [tool EXCEPT !.pc = "returned",
                          !.alerts = nw.result[2],
                          !.alertsFailed = nw.failed,
                          !.out = CurrentFinish(AdaptRawsData(tool.station), nw.result[2], now)]
  /\ nw' = IdleNws
  /\ UNCHANGED store
  /\ UNCHANGED OthersTool

\* searchStations resolves with a list of stations
SearchOk(count) ==
  /\ tool.pc = "coord"
  /\ tool.name = "search_raws_stations"
  /\ tool' = [tool EXCEPT !.pc = "returned", !.out = Success(<<"stations", count>>)]
  /\ UNCHANGED <<store, nw>>
  /\ UNCHANGED OthersTool

\* getHistoricalObservations resolves: an empty time series is NO_DATA
HistoricalOk(points) ==
  /\ tool.pc = "coord"
  /\ tool.name = "get_raws_historical"
  /\ tool' = [tool EXCEPT
                !.pc = "returned",
                !.out = IF points = 0
                        THEN Failure(<<"NO_DATA">>, 404, <<"No historical data found">>)
                        ELSE Success(<<"time_series", points>>)]
  /\ UNCHANGED <<store, nw>>
  /\ UNCHANGED OthersTool

\* the coordinator call rejects with the last provider's error: the handler's
\* catch block builds the envelope
CoordFail(error) ==
  /\ tool.pc = "coord"
  /\ tool' = [tool EXCEPT
                !.pc = "returned",
                !.error = error,
                !.out = IF tool.name = "search_raws_stations" THEN CatchSearch(error)
                        ELSE CatchStation(error)]
  /\ UNCHANGED <<store, nw>>
  /\ UNCHANGED OthersTool

\* the server has sent the result (or the failure) to the client
ToolDone ==
  /\ tool.pc \in {"returned", "threw"}
  /\ tool' = IdleTool
  /\ UNCHANGED <<store, nw>>
  /\ UNCHANGED OthersTool

\* another caller of getNWSAlerts / getNWSForecast, between tool calls
OtherNwsCall(op) ==
  /\ tool.pc = "idle"
  /\ NwsCall(op)

InitTool ==
  /\ store = <<>>
  /\ now = 0
  /\ maxSize \in CacheSizes
  /\ last = [op |-> "new", key |-> Null, ret |-> Null]
  /\ shadow = <<>>
  /\ evicted = FALSE
  /\ diverged = FALSE
  /\ rq = IdleRequest
  /\ clients = <<"synoptic", "mesowest">>
  /\ nws \in BOOLEAN
  /\ req = [r \in Reqs |-> IdleCall]
  /\ tool = IdleTool
  /\ nw = IdleNws
  /\ tr = IdleTransform
  /\ fireIndices \in BOOLEAN
  /\ fn = IdleFn
  /\ co = IdleFetch

NextTool ==
  \/ \E name \in ToolNames : \E args \in ArgsFor(name) : CallTool(name, args)
  \/ \E station \in RawStations : ObservationOk(station)
  \/ ToolAlertsDone
  \/ \E count \in 0..1 : SearchOk(count)
  \/ \E points \in 0..1 : HistoricalOk(points)
  \/ \E error \in CoordErrors : CoordFail(error)
  \/ ToolDone
  \/ \E op \in {"alerts", "forecast"} : OtherNwsCall(op)
  \/ \E body \in AlertBodies : AlertsOk(body)
  \/ AlertsFail
  \/ PointsOk
  \/ \E hasPeriods \in BOOLEAN : ForecastOk(hasPeriods)
  \/ ForecastFail
  \/ NwsReturn

SpecTool == InitTool /\ [][NextTool]_vars

----------------------------------------------------------------------------
(* Utility functions, called one at a time *)

OthersFn ==
  <<store, now, maxSize, last, shadow, evicted, diverged, rq, clients, nws, tool, nw, tr,
    fireIndices, co, req>>

\* one call of a utility function and its result
CallFn(op, args, out) ==
  /\ fn.pc = "idle"
  /\ fn' = [pc |-> "done", op |-> op, args |-> args, out |-> out]
  /\ UNCHANGED OthersFn

\* the caller has taken the result
FnDone ==
  /\ fn.pc = "done"
  /\ fn' = IdleFn
  /\ UNCHANGED OthersFn

\* a property read of an object: Absent when the object has no such property
Prop(obj, name) == IF name \in DOMAIN obj THEN obj[name] ELSE Absent

\* the observations of a historical series as extractTimeSeries builds them:
\* timestamp in hours, readings in tenths
SeriesEntries ==
  {[timestamp |-> ts, windSpeed |-> w, relativeHumidity |-> rh, temperature |-> 600] :
     ts \in {0, 3, 4}, w \in {50, 200, 210}, rh \in {300, 500, 510}}

HistoricalSeries == SeqsUpTo(SeriesEntries, MaxSeries)

\* [...timeSeries].sort by timestamp (stable)
RECURSIVE InsertByTime(_, _)
InsertByTime(sorted, x) ==
  IF sorted = <<>> THEN <<x>>
  ELSE IF sorted[Len(sorted)].timestamp <= x.timestamp THEN Append(sorted, x)
  ELSE Append(InsertByTime(SubSeq(sorted, 1, Len(sorted) - 1), x), sorted[Len(sorted)])

RECURSIVE SortByTime(_)
SortByTime(series) ==
  IF series = <<>> THEN <<>>
  ELSE InsertByTime(SortByTime(SubSeq(series, 1, Len(series) - 1)), series[Len(series)])

\* a - b > limit on two property reads; with an absent operand the difference
\* is NaN and the comparison false
ExceedsBy(a, b, limit) == a # Absent /\ b # Absent /\ a - b > limit

\* the entries pushed for one pair of consecutive observations
PairChanges(current, next) ==
  LET timeDiff == next.timestamp - current.timestamp
  IN IF timeDiff <= 3 /\ timeDiff > 0
     THEN (IF ExceedsBy(Prop(next, "windSpeed"), Prop(current, "windSpeed"), 150)
           THEN <<[type |-> "wind_increase", time |-> next.timestamp,
                   value |-> next.windSpeed - current.windSpeed]>>
           ELSE <<>>)
          \o (IF ExceedsBy(Prop(current, "humidity"), Prop(next, "humidity"), 200)
              THEN <<[type |-> "humidity_drop", time |-> next.timestamp,
                      value |-> current.humidity - next.humidity]>>
              ELSE <<>>)
          \o (IF ExceedsBy(Prop(next, "temperature"), Prop(current, "temperature"), 200)
              THEN <<[type |-> "temperature_spike", time |-> next.timestamp,
                      value |-> next.temperature - current.temperature]>>
              ELSE <<>>)
     ELSE <<>>

RECURSIVE ChangesFrom(_, _)
ChangesFrom(sorted, i) ==
  IF i >= Len(sorted) THEN <<>>
  ELSE PairChanges(sorted[i], sorted[i + 1]) \o ChangesFrom(sorted, i + 1)

\* detectExtremeChanges(timeSeries)
DetectExtremeChanges(timeSeries) ==
  IF Len(timeSeries) < 2 THEN <<>> ELSE ChangesFrom(SortByTime(timeSeries), 1)

\* transformExtremeChanges: the entries for the current conditions
CurrentChanges(rawsData) ==
  (IF Prop(rawsData, "windGust") # Absent /\ rawsData.windGust > 400
   THEN <<[parameter |-> "wind", change |-> "gusts up to",
           magnitude |-> Round(rawsData.windGust), time_frame |-> "current"]>>
   ELSE <<>>)
  \o (IF rawsData.relativeHumidity < 100
      THEN <<[parameter |-> "humidity", change |-> "critically low at",
              magnitude |-> Round(rawsData.relativeHumidity), time_frame |-> "current"]>>
      ELSE <<>>)
  \o (IF Prop(rawsData, "fuelMoisture") # Absent /\ rawsData.fuelMoisture < 80
      THEN <<[parameter |-> "fuel_moisture", change |-> "very dry fuels at",
              magnitude |-> rawsData.fuelMoisture, time_frame |-> "current"]>>
      ELSE <<>>)

\* transformExtremeChanges(rawsData, historicalData)
TransformExtremeChanges(rawsData, historicalData) ==
  (IF Len(historicalData) > 0 THEN DetectExtremeChanges(historicalData) ELSE <<>>)
  \o CurrentChanges(rawsData)

\* a variant of the schema's extreme_changes element that requires nothing
AnyChangeAccepted(change) == TRUE

\* wildfireSchema: an extreme_changes element must have the four strings
ChangeAccepted(change) ==
  {"parameter", "change", "magnitude", "time_frame"} \subseteq DOMAIN change

\* transformToWildfireSchema(rawsData, { nwsAlerts, historicalData })
TransformWithHistory(rawsData, alerts, historicalData, t) ==
  LET base == TransformToWildfireSchema(rawsData, alerts, t)
      changes == TransformExtremeChanges(rawsData, historicalData)
  IN IF base.threw THEN [threw |-> TRUE, error |-> base.error, changes |-> <<>>]
     ELSE IF \A i \in 1..Len(changes) : ChangeAccepted(changes[i])
          THEN [threw |-> FALSE, error |-> NoThrow, changes |-> changes]
          ELSE [threw |-> TRUE, error |-> ZodError, changes |-> <<>>]

\* the observations the transformer is called with beside a series
HistoryRaws ==
  {[temperature |-> 850, relativeHumidity |-> rh, windSpeed |-> 100, windGust |-> g,
    fuelMoisture |-> Absent] : rh \in {90, 400}, g \in {Absent, 410}}

NextHistory ==
  \/ /\ fn.pc = "idle"
     /\ \E rawsData \in HistoryRaws, series \in HistoricalSeries :
          CallFn("transformToWildfireSchema", <<rawsData, series>>,
                 TransformWithHistory(rawsData, <<>>, series, now))
  \/ FnDone

SpecHistory == InitWarn /\ [][NextHistory]_vars

\* estimateProbabilityOfRain: humidity and temperature in tenths, precipitation
\* in hundredths of an inch
EstimateProbabilityOfRain(relativeHumidity, recentPrecip, temperature) ==
  LET fromHumidity == IF relativeHumidity >= 900 THEN 60
                      ELSE IF relativeHumidity >= 800 THEN 40
                      ELSE IF relativeHumidity >= 700 THEN 20
                      ELSE IF relativeHumidity >= 600 THEN 10
                      ELSE 0
      fromPrecip == IF recentPrecip > 10 THEN 20
                    ELSE IF recentPrecip > 1 THEN 10
                    ELSE 0
      probability == fromHumidity + fromPrecip
      adjusted == IF temperature # Absent /\ temperature < 320
                  THEN Max(0, probability - 10)
                  ELSE probability
  IN IF adjusted > 100 THEN 100 ELSE adjusted

\* transformRainProbability: precipAccum || 0
TransformRainProbability(rawsData) ==
  EstimateProbabilityOfRain(rawsData.relativeHumidity,
                            IF rawsData.precipAccum = Absent THEN 0
                            ELSE rawsData.precipAccum,
                            rawsData.temperature)

\* wildfireSchema.parse: probability_of_rain.percent min(0).max(100)
RainAccepted(percent) == percent >= 0 /\ percent <= 100

\* transformToWildfireSchema(rawsData): the numbers of the returned document
TransformNumbers(rawsData, t) ==
  LET base == TransformToWildfireSchema(rawsData, <<>>, t)
      rain == TransformRainProbability(rawsData)
  IN IF base.threw THEN [threw |-> TRUE, error |-> base.error, doc |-> <<>>]
     ELSE IF RainAccepted(rain)
          THEN [threw |-> FALSE, error |-> NoThrow,
                doc |-> <<[humidity |-> base.doc[1].humidity, speed |-> base.doc[1].speed,
                           gusts |-> base.doc[1].gusts, probability_of_rain |-> rain]>>]
          ELSE [threw |-> TRUE, error |-> ZodError, doc |-> <<>>]

\* observations inside, on, just beyond and far beyond the schema's ranges
RangeRaws ==
  {[temperature |-> tp, relativeHumidity |-> rh, windSpeed |-> ws, windGust |-> g,
    precipAccum |-> pr, fuelMoisture |-> Absent] :
      tp \in {310, 850}, rh \in {0 - 50, 0 - 4, 0, 595, 900, 1000, 1004, 1010},
      ws \in {0 - 50, 0 - 4, 0, 100}, g \in {Absent, 0 - 50, 0 - 4, 150},
      pr \in {Absent, 5, 20}}

NextRanges ==
  \/ /\ fn.pc = "idle"
     /\ \E rawsData \in RangeRaws :
          CallFn("transformNumbers", <<rawsData>>, TransformNumbers(rawsData, now))
  \/ FnDone

SpecRanges == InitWarn /\ [][NextRanges]_vars

\* get_raws_current, lines 47-62: whether the handler goes on to the
\* coordinator, and the stationId it passes to getCurrentObservation
PassedStationId(station_id) ==
  LET stationId == SanitizeStationId(station_id)
  IN IF stationId.threw \/ ~IsValidStationId(stationId.s)
     THEN [accepted |-> FALSE, id |-> <<>>]
     ELSE [accepted |-> TRUE, id |-> stationId.s]

\* what callers write before the station's own id
IdPrefixes ==
  {<<>>, RawsPrefix, <<"r", "a", "w", "s", ":">>, <<" ">> \o RawsPrefix,
   RawsPrefix \o RawsPrefix}

IdBodies ==
  {<<"C", "5", "7">>, <<"C", "5", "7", "2">>, <<"C", "5", "7", "2", "5">>,
   <<"c", "5", "7", "2", "5">>, <<"C", "5", "7", "2", "5", "2">>,
   <<"C", "5", "7", "2", "5", "2", "5">>, <<"C", "5", "!", "2", "5">>,
   <<"R", "A", "W", "S">>, <<"r", "a", "w", "s", "1">>, <<"5", "7", "2", "5">>,
   <<"C", "5", " ", "2", "5">>}

IdSuffixes == {<<>>, <<" ">>}

StationIdInputs ==
  {Undefined, Num(5725), Str(<<>>)} \cup
  {Str(pre \o body \o suf) : pre \in IdPrefixes, body \in IdBodies, suf \in IdSuffixes}

NextStationId ==
  \/ /\ fn.pc = "idle"
     /\ \E station_id \in StationIdInputs :
          CallFn("passedStationId", <<station_id>>, PassedStationId(station_id))
  \/ FnDone

SpecStationId == InitWarn /\ [][NextStationId]_vars

\* null, distinct from undefined
JsNull == JsValue("null", 0, <<>>)

\* a % b of JavaScript: the sign of the result is the sign of a
JsRem(a, b) == IF a >= 0 THEN a % b ELSE 0 - ((0 - a) % b)

Directions ==
  <<"N", "NNE", "NE", "ENE", "E", "ESE", "SE", "SSE",
    "S", "SSW", "SW", "WSW", "W", "WNW", "NW", "NNW">>

\* Math.round((degrees + 11.25) / 22.5) % 16, degrees in hundredths;
\* Math.round(x) is floor(x + 0.5)
SectorIndex(degrees) == ((2 * (degrees + 1125) + 2250) \div 4500) % 16

\* degreesToCardinal(degrees), a number being given in hundredths of a degree
DegreesToCardinal(degrees) ==
  IF degrees.t \in {"undefined", "null", "nan"} THEN "Unknown"
  ELSE LET rem == JsRem(degrees.n, 36000)
           normalized == IF rem < 0 THEN rem + 36000 ELSE rem
       IN Directions[SectorIndex(normalized) + 1]

\* the bearings explored: -90 to 450 degrees in steps of 2.25
DegreeValues ==
  {Undefined, JsNull, NaN} \cup {Num(225 * k) : k \in (0 - 40)..200}

NextCardinal ==
  \/ /\ fn.pc = "idle"
     /\ \E degrees \in DegreeValues :
          CallFn("degreesToCardinal", degrees, DegreesToCardinal(degrees))
  \/ FnDone

SpecCardinal == InitWarn /\ [][NextCardinal]_vars

\* x == null
IsNullish(x) == x.t \in {"undefined", "null"}

\* Number(x) for a value in a comparison: null is 0; undefined and NaN make
\* every comparison false
Comparable(x) == x.t \in {"number", "null"}
NumberOf(x) == IF x.t = "number" THEN x.n ELSE 0
JsLess(x, c) == Comparable(x) /\ NumberOf(x) < c
JsAtMost(x, c) == Comparable(x) /\ NumberOf(x) <= c
JsAtLeast(x, c) == Comparable(x) /\ NumberOf(x) >= c

\* what a calculator returns: null, or a number, or a class name
NullResult == <<"null">>
NumberResult(n) == <<"number", n>>
ClassResult(name) == <<"class", name>>

\* the conditions explored, in whole units: temperature, humidity, wind, fuel moisture
Conditions ==
  {[temperature |-> t, relativeHumidity |-> rh, windSpeed |-> w, fuelMoisture |-> fm] :
     t \in {Undefined, JsNull, Num(70), Num(96)},
     rh \in {Undefined, JsNull, Num(9), Num(10), Num(14), Num(19), Num(20), Num(50)},
     w \in {Undefined, JsNull, Num(5), Num(21), Num(26)},
     fm \in {Undefined, JsNull, Num(0), Num(4), Num(5)}}

\* the numbers a floating-point formula may yield for present inputs: the
\* values around the class bands
FormulaValues == {0, 24, 25, 49, 50, 74, 75, 89, 90}

\* calculateFosbergFFWI: null for a nullish input, else the formula's number
CalculateFosbergFFWI(c, value) ==
  IF IsNullish(c.temperature) \/ IsNullish(c.relativeHumidity) \/ IsNullish(c.windSpeed)
  THEN NullResult
  ELSE NumberResult(value)

\* calculateEquilibriumMoistureContent: no test for null; 0 outside
\* 0.1 <= rh <= 1.0, else the formula on Number(temperature)
CalculateEquilibriumMoistureContent(c, value) ==
  IF JsAtLeast(c.relativeHumidity, 10) /\ JsAtMost(c.relativeHumidity, 100)
  THEN <<"number", value, "with temperature", NumberOf(c.temperature)>>
  ELSE NumberResult(0)

\* calculateHainesIndex
CalculateHainesIndex(c) ==
  IF IsNullish(c.temperature) \/ IsNullish(c.relativeHumidity) THEN NullResult
  ELSE NumberResult(
         (IF c.temperature.n >= 90 THEN 3 ELSE IF c.temperature.n >= 75 THEN 2 ELSE 1)
         + (IF c.relativeHumidity.n <= 20 THEN 3 ELSE IF c.relativeHumidity.n <= 40 THEN 2 ELSE 1))

\* calculateChandlerBurningIndex: null for a nullish temperature or humidity
CalculateChandlerBurningIndex(c, value) ==
  IF IsNullish(c.temperature) \/ IsNullish(c.relativeHumidity) THEN NullResult
  ELSE NumberResult(value)

\* the class of a Chandler value; null >= 25 is false
ChandlerBand(cbi) ==
  IF cbi = NullResult THEN "Low"
  ELSE IF cbi[2] >= 90 THEN "Extreme"
  ELSE IF cbi[2] >= 75 THEN "Very High"
  ELSE IF cbi[2] >= 50 THEN "High"
  ELSE IF cbi[2] >= 25 THEN "Moderate"
  ELSE "Low"

\* readings of a JSON value in tenths, null and undefined being Absent
Tenths(x) == IF IsNullish(x) THEN Absent ELSE 10 * x.n

\* calculateFireDangerClass(conditions)
CalculateFireDangerClass(c, value) ==
  LET cbi == CalculateChandlerBurningIndex(c, value)
  IN IF JsLess(c.relativeHumidity, 10)
        \/ (~Falsy(c.fuelMoisture) /\ c.fuelMoisture.t # "null" /\ JsLess(c.fuelMoisture, 5))
     THEN ClassResult("Extreme")
     ELSE IF IsRedFlagConditions(Tenths(c.relativeHumidity), Tenths(c.windSpeed), FALSE)
          THEN ClassResult("Extreme")
          ELSE ClassResult(ChandlerBand(cbi))

\* estimateIgnitionProbability(conditions)
EstimateIgnitionProbability(c) ==
  LET temperature ==
        IF JsAtLeast(c.temperature, 95) THEN 30
        ELSE IF JsAtLeast(c.temperature, 85) THEN 20
        ELSE IF JsAtLeast(c.temperature, 75) THEN 10 ELSE 0
      humidity ==
        IF JsAtMost(c.relativeHumidity, 10) THEN 40
        ELSE IF JsAtMost(c.relativeHumidity, 20) THEN 30
        ELSE IF JsAtMost(c.relativeHumidity, 30) THEN 20
        ELSE IF JsAtMost(c.relativeHumidity, 40) THEN 10 ELSE 0
      wind ==
        IF JsAtLeast(c.windSpeed, 20) THEN 20
        ELSE IF JsAtLeast(c.windSpeed, 10) THEN 10
        ELSE IF JsAtLeast(c.windSpeed, 5) THEN 5 ELSE 0
      probability == temperature + humidity + wind
  IN NumberResult(IF probability > 100 THEN 100 ELSE probability)

Calculators ==
  {"calculateFosbergFFWI", "calculateEquilibriumMoistureContent", "calculateHainesIndex",
   "calculateChandlerBurningIndex", "calculateFireDangerClass", "estimateIgnitionProbability"}

Calculate(name, c, value) ==
  CASE name = "calculateFosbergFFWI" -> CalculateFosbergFFWI(c, value)
    [] name = "calculateEquilibriumMoistureContent" -> CalculateEquilibriumMoistureContent(c, value)
    [] name = "calculateHainesIndex" -> CalculateHainesIndex(c)
    [] name = "calculateChandlerBurningIndex" -> CalculateChandlerBurningIndex(c, value)
    [] name = "calculateFireDangerClass" -> CalculateFireDangerClass(c, value)
    [] OTHER -> EstimateIgnitionProbability(c)

NextCalc ==
  \/ /\ fn.pc = "idle"
     /\ \E name \in Calculators, c \in Conditions, value \in FormulaValues :
          CallFn(name, <<c, value>>, Calculate(name, c, value))
  \/ FnDone

SpecCalc == InitWarn /\ [][NextCalc]_vars

\* the stations a provider may return: each with its great-circle distance
\* from the query point in hundredths of a mile (what calculateDistance gives)
FoundStations ==
  {[id |-> s[1], distance |-> s[2]] :
     s \in {<<"A", 50>>, <<"B", 123>>, <<"C", 124>>, <<"D", 126>>, <<"E", 126>>, <<"F", 4000>>}}

StationLists == SeqsUpTo(FoundStations, MaxStations)

\* { ...station, distance_miles: Math.round(distance * 10) / 10 }, in tenths
WithDistance(station) ==
  [id |-> station.id, distance_miles |-> (station.distance + 5) \div 10]

RECURSIVE InsertByDistance(_, _)
InsertByDistance(sorted, x) ==
  IF sorted = <<>> THEN <<x>>
  ELSE IF sorted[Len(sorted)].distance_miles <= x.distance_miles THEN Append(sorted, x)
  ELSE Append(InsertByDistance(SubSeq(sorted, 1, Len(sorted) - 1), x), sorted[Len(sorted)])

\* .sort((a, b) => a.distance_miles - b.distance_miles) (stable)
RECURSIVE SortByDistance(_)
SortByDistance(stations) ==
  IF stations = <<>> THEN <<>>
  ELSE InsertByDistance(SortByDistance(SubSeq(stations, 1, Len(stations) - 1)),
                        stations[Len(stations)])

\* a variant without the sort: the stations in the provider's order
StationsInProviderOrder(stations) == [i \in 1..Len(stations) |-> WithDistance(stations[i])]

\* stationsWithDistance of the search handler
StationsWithDistance(stations) ==
  SortByDistance([i \in 1..Len(stations) |-> WithDistance(stations[i])])

NextSearch ==
  \/ /\ fn.pc = "idle"
     /\ \E stations \in StationLists :
          CallFn("stationsWithDistance", stations, StationsWithDistance(stations))
  \/ FnDone

SpecSearch == InitWarn /\ [][NextSearch]_vars

----------------------------------------------------------------------------
(* Properties of the red-flag warnings *)

FireAlertCount(alerts) == Cardinality({i \in 1..Len(alerts) : IsFireAlert(alerts[i])})

\* C19: with no Red Flag Warning or Fire Weather Watch alert supplied, the
\* list is exactly one Red Flag entry iff humidity < 15 and
\* max(wind speed, gust) > 25; otherwise exactly one Watch entry iff
\* humidity < 25 and wind speed > 15; otherwise empty.
C19_ThresholdTiers ==
  (tr.pc = "done" /\ FireAlertCount(tr.alerts) = 0) =>
    LET rh == tr.raws.relativeHumidity
        w == tr.raws.windSpeed
        g == IF tr.raws.windGust = Absent THEN 0 ELSE tr.raws.windGust
        levels == [i \in 1..Len(tr.warnings) |-> tr.warnings[i].level]
    IN IF rh < 150 /\ Max(w, g) > 250 THEN levels = <<"Red Flag">>
       ELSE IF rh < 250 /\ w > 150 THEN levels = <<"Watch">>
       ELSE levels = <<>>

\* C19 in the code: humidity 19.9 and wind 20.1 with no gust, below the Red
\* Flag thresholds of the specification, yield a Red Flag entry
C19_RedFlagBelowThreshold ==
  /\ tr.pc = "done"
  /\ tr.alerts = <<>>
  /\ tr.raws = [relativeHumidity |-> 199, windSpeed |-> 201, windGust |-> Absent]
  /\ Len(tr.warnings) = 1
  /\ tr.warnings[1].level = "Red Flag"

\* C20: when the alerts contain a Red Flag Warning or Fire Weather Watch, the
\* list has exactly one entry per such alert, in order, with the alert's own
\* onset and expiry times where it has them, and no threshold-derived entry.
C20_AlertsTakePrecedence ==
  (tr.pc = "done" /\ FireAlertCount(tr.alerts) > 0) =>
    LET fire == SelectSeq(tr.alerts, IsFireAlert)
    IN /\ Len(tr.warnings) = Len(fire)
       /\ \A i \in 1..Len(fire) :
            /\ tr.warnings[i].level =
                 (IF fire[i].event = "Red Flag Warning" THEN "Red Flag" ELSE "Watch")
            /\ tr.warnings[i].description = fire[i].headline
            /\ fire[i].onset # 0 => tr.warnings[i].start_time = fire[i].onset
            /\ fire[i].expires # 0 => tr.warnings[i].end_time = fire[i].expires

\* C20 witness: dry and windy enough for the threshold Red Flag, but the only
\* entry is the Watch translated from the supplied alert with its own times
C20_WatchAlertSuppressesThreshold ==
  /\ tr.pc = "done"
  /\ tr.raws.relativeHumidity = 149
  /\ tr.raws.windSpeed = 251
  /\ Len(tr.alerts) = 2
  /\ tr.alerts[1].event = "Heat Advisory"
  /\ tr.alerts[2].event = "Fire Weather Watch"
  /\ tr.alerts[2].onset = 5
  /\ tr.warnings = <<[start_time |-> 5, end_time |-> 9, level |-> "Watch",
                      description |-> <<"Fire Weather Watch", "headline">>]>>

----------------------------------------------------------------------------
(* Properties of the tool calls *)

ClientErrorStatus(status) == status >= 400 /\ status <= 499

GenericCodes == {<<"UNKNOWN_ERROR">>, <<"TOOL_EXECUTION_ERROR">>, <<>>}

\* C13: a handler given an arguments object that its validators or its input
\* schema reject returns success:false with a 4xx status and a specific code,
\* and has made no coordinator call for that request.
C13_InvalidInputRejected ==
  (tool.pc # "idle" /\ Registered(tool.name) /\ tool.args.given
     /\ ~ValidArgs(tool.name, tool.args))
    => /\ tool.pc = "returned"
       /\ tool.calls = <<>>
       /\ ~tool.out.success
       /\ ClientErrorStatus(tool.out.status)
       /\ tool.out.code \notin GenericCodes

\* a station id sent as a JSON number is answered with UNKNOWN_ERROR and 500
C13_NumericStationIdAnswered500 ==
  /\ tool.pc = "returned"
  /\ tool.name \in {"get_raws_current", "get_raws_historical"}
  /\ tool.args.station_id = Num(5725)
  /\ tool.calls = <<>>
  /\ tool.out = Failure(<<"UNKNOWN_ERROR">>, 500, <<"TypeError">>)

\* C14: when the coordinator call ends with a transient error of the last
\* provider (timeout or network error, 5xx, rate limiting), the tool result is
\* success:false with a 5xx status and that error's code and message.
C14_TransientFailureIs5xx ==
  (tool.pc = "returned" /\ tool.error \in TransientErrors)
    => /\ ~tool.out.success
       /\ tool.out.status >= 500
       /\ tool.out.status <= 599
       /\ tool.out.code = tool.error.code
       /\ tool.out.message = tool.error.message

\* every provider answered 429 to the end: the result carries status 429
C14_RateLimitedAnswered429 ==
  /\ tool.pc = "returned"
  /\ tool.name = "get_raws_current"
  /\ tool.error \in TransientErrors
  /\ tool.error.code = <<"HTTP", 429>>
  /\ tool.out = Failure(<<"HTTP", 429>>, 429, tool.error.message)

\* C15: executeTool never throws or rejects; what it returns is success:true
\* with data, or success:false with a code, a message and a status.
C15_EnvelopeAlways ==
  /\ tool.pc # "threw"
  /\ tool.pc = "returned" =>
       \/ tool.out.success /\ tool.out.data # <<>>
       \/ /\ ~tool.out.success
          /\ tool.out.code # <<>>
          /\ tool.out.message # <<>>
          /\ tool.out.status >= 400

\* a handler called without an arguments object throws while destructuring,
\* and executeTool answers TOOL_EXECUTION_ERROR
C15_HandlerThrowCaught ==
  /\ tool.pc = "returned"
  /\ Registered(tool.name)
  /\ ~tool.args.given
  /\ tool.out = Failure(<<"TOOL_EXECUTION_ERROR">>, 500, <<"TypeError">>)

\* C16: with alert integration disabled, alert retrieval returns an empty list
\* and forecast retrieval returns nothing, the cache is neither read nor
\* written, no request goes to the alert provider, and get_raws_current does
\* not enter its alerts step.
C16_DisabledDoesNothing ==
  ~nws =>
    /\ nw.trace = <<>>
    /\ store = <<>>
    /\ nw.pc \in {"idle", "done"}
    /\ nw.pc = "done" =>
         nw.result = (IF nw.op = "alerts" THEN <<"alerts", <<>>>> ELSE <<>>)
    /\ tool.pc # "alerts"
    /\ \A i \in 1..Len(tool.calls) : tool.calls[i] # "getNWSAlerts"

\* both retrievals have been asked for with the flag off
C16_DisabledForecastReturned ==
  ~nws /\ nw.pc = "done" /\ nw.op = "forecast" /\ nw.result = <<>>

\* C17: a failed alerts request ends getNWSAlerts with an empty list, and a
\* get_raws_current call whose observation is complete then returns
\* success:true with the document built from no alerts.
C17_AlertFailureSwallowed ==
  /\ (nw.pc = "done" /\ nw.failed) => nw.result = <<"alerts", <<>>>>
  /\ (tool.pc = "returned" /\ tool.alertsFailed) =>
       LET rawsData == AdaptRawsData(tool.station)
       IN /\ tool.out = CurrentFinish(rawsData, <<>>, now)
          /\ (MissingFields(rawsData) = {} /\ SchemaAccepts(WildfireDocument(rawsData, <<>>, now)))
               => tool.out.success

\* the alerts request failed and the call still succeeded
C17_SucceededWithoutAlerts ==
  /\ tool.pc = "returned"
  /\ tool.alertsFailed
  /\ tool.out.success
  /\ tool.out.data[1].red_flag_warnings # <<>>

\* C18: when the fetched observation lacks temperature, humidity or wind
\* speed, the call fails with a validation error: success:false, a specific
\* code and a 4xx status, and no document.
C18_MissingFieldIsValidationError ==
  (tool.pc = "returned" /\ tool.station.obs
     /\ MissingFields(AdaptRawsData(tool.station)) # {})
    => /\ ~tool.out.success
       /\ tool.out.data = <<>>
       /\ ClientErrorStatus(tool.out.status)
       /\ tool.out.code \notin GenericCodes

\* an observation without wind speed is answered with UNKNOWN_ERROR and 500
C18_MissingFieldAnswered500 ==
  /\ tool.pc = "returned"
  /\ tool.station.obs
  /\ "windSpeed" \in MissingFields(AdaptRawsData(tool.station))
  /\ tool.out = Failure(<<"UNKNOWN_ERROR">>, 500, <<"Missing required fields">>)

----------------------------------------------------------------------------
(* Properties of the utility functions *)

\* the pairs of time-consecutive observations at most 3 hours apart
ClosePairs(series) ==
  LET sorted == SortByTime(series)
  IN {i \in 1..(Len(sorted) - 1) : sorted[i + 1].timestamp - sorted[i].timestamp <= 3}

CountOfType(changes, type) ==
  Cardinality({i \in 1..Len(changes) : "type" \in DOMAIN changes[i] /\ changes[i].type = type})

\* C21: when a historical series is supplied, the transformer returns a
\* document whose extreme_changes has one entry per pair of consecutive
\* observations at most 3 hours apart with a wind-speed increase of more than
\* 15 mph, and one per such pair with a humidity drop of more than 20 points.
C21_ChangesReported ==
  (fn.pc = "done" /\ fn.op = "transformToWildfireSchema" /\ Len(fn.args[2]) > 0) =>
    LET sorted == SortByTime(fn.args[2])
        pairs == ClosePairs(fn.args[2])
    IN /\ ~fn.out.threw
       /\ CountOfType(fn.out.changes, "wind_increase") =
            Cardinality({i \in pairs : sorted[i + 1].windSpeed - sorted[i].windSpeed > 150})
       /\ CountOfType(fn.out.changes, "humidity_drop") =
            Cardinality({i \in pairs :
                           sorted[i].relativeHumidity - sorted[i + 1].relativeHumidity > 200})

\* wind rising from 5 to 21 mph within three hours: the call throws
C21_WindRiseRejectedBySchema ==
  /\ fn.pc = "done"
  /\ fn.op = "transformToWildfireSchema"
  /\ Len(fn.args[2]) = 2
  /\ fn.args[2][1].timestamp = 0
  /\ fn.args[2][2].timestamp = 3
  /\ fn.args[2][1].windSpeed = 50
  /\ fn.args[2][2].windSpeed = 210
  /\ fn.out.threw
  /\ fn.out.error = ZodError

\* the distance on the circle between two bearings in hundredths of a degree
CircularDistance(a, b) ==
  LET d == (a - b) % 36000 IN IF d <= 18000 THEN d ELSE 36000 - d

\* C22: null, undefined and NaN map to 'Unknown'; every number is normalized
\* modulo 360 and gets the label whose bearing is less than 11.25 degrees
\* away, so that 0 and 360 map to 'N', 45 and 405 to 'NE', -45 and 315 to 'NW'.
C22_NearestCompassLabel ==
  (fn.pc = "done" /\ fn.op = "degreesToCardinal") =>
    IF fn.args.t # "number" THEN fn.out = "Unknown"
    ELSE \A k \in 0..15 :
           CircularDistance(fn.args.n % 36000, 2250 * k) < 1125 => fn.out = Directions[k + 1]

\* degreesToCardinal(0) is 'NNE'
C22_NorthMapsToNNE ==
  fn.pc = "done" /\ fn.op = "degreesToCardinal" /\ fn.args = Num(0) /\ fn.out = "NNE"

\* the inputs a calculator requires
RequiredInputs(name) ==
  CASE name \in {"calculateFosbergFFWI", "calculateFireDangerClass",
                 "estimateIgnitionProbability"} ->
         {"temperature", "relativeHumidity", "windSpeed"}
    [] OTHER -> {"temperature", "relativeHumidity"}

\* C23: a fire-weather calculator given null or undefined for one of its
\* required inputs returns null.
C23_NullInputGivesNull ==
  (fn.pc = "done" /\ fn.op \in Calculators
     /\ \E f \in RequiredInputs(fn.op) : IsNullish(fn.args[1][f]))
    => fn.out = NullResult

\* a null humidity is classified 'Extreme', as a humidity of zero would be
C23_NullHumidityIsExtreme ==
  /\ fn.pc = "done"
  /\ fn.op = "calculateFireDangerClass"
  /\ fn.args[1].relativeHumidity = JsNull
  /\ fn.args[1].temperature = Num(70)
  /\ fn.args[1].windSpeed = Num(5)
  /\ fn.out = ClassResult("Extreme")

BagOf(list) ==
  [x \in {list[i] : i \in 1..Len(list)} |-> Cardinality({i \in 1..Len(list) : list[i] = x})]

----------------------------------------------------------------------------
(* Properties of concurrent coordinator calls *)

\* request r returned at its cache lookup, without calling a provider
FromCache(r) == req[r].pc = "done" /\ req[r].calls = <<>>

\* the results a successful fetch for this key can produce and store
CompleteResults(kind) ==
  {Tagged(kind, ProviderData(kind, clients[i]), i) : i \in 1..Len(clients)}

----------------------------------------------------------------------------
(* Properties of the document's ranges *)

\* the observation has a value outside the ranges of the document
OutOfRange(rawsData) ==
  \/ rawsData.relativeHumidity < 0
  \/ rawsData.relativeHumidity > 1000
  \/ rawsData.windSpeed < 0
  \/ rawsData.windGust # Absent /\ rawsData.windGust < 0

\* the numbers of a returned document are within the schema's ranges
DocumentInRange(doc) ==
  /\ doc.humidity >= 0 /\ doc.humidity <= 100
  /\ doc.speed >= 0
  /\ doc.gusts >= 0
  /\ doc.probability_of_rain >= 0 /\ doc.probability_of_rain <= 100

\* C27: every returned document has humidity and rain probability within 0..100
\* and non-negative wind speed and gusts, and an observation with a value
\* outside these ranges makes the call fail
C27_InRangeOrFails ==
  fn.op = "transformNumbers" =>
    /\ ~fn.out.threw => DocumentInRange(fn.out.doc[1])
    /\ OutOfRange(fn.args[1]) => fn.out.threw

\* a humidity reading of 100.4 % is returned as a document with humidity 100
C27_OverRangeHumidityRounded ==
  /\ fn.op = "transformNumbers"
  /\ fn.args[1].relativeHumidity = 1004
  /\ ~fn.out.threw
  /\ fn.out.doc[1].humidity = 100

----------------------------------------------------------------------------
(* Properties of station ids *)

\* 4 to 6 letters or digits, and so no provider prefix
PlainStationId(s) ==
  /\ Len(s) >= 4
  /\ Len(s) <= 6
  /\ \A i \in 1..Len(s) : s[i] \in AlnumChars

\* C28: whenever the handler accepts a station id, the id it passes to the
\* coordinator is 4 to 6 alphanumeric characters without the RAWS: prefix
C28_PassedIdIsPlain ==
  (fn.op = "passedStationId" /\ fn.out.accepted) => PlainStationId(fn.out.id)

\* 'raws:c5725' is accepted and the coordinator is called with 'RAWS:C5725'
C28_LowerCasePrefixPassedOn ==
  /\ fn.op = "passedStationId"
  /\ fn.args[1] = Str(<<"r", "a", "w", "s", ":", "c", "5", "7", "2", "5">>)
  /\ fn.out.accepted
  /\ fn.out.id = RawsPrefix \o <<"C", "5", "7", "2", "5">>

----------------------------------------------------------------------------
(* Properties of the cache's size *)

\* C29: after any sequence of set, get, has, delete, clear and sweep, the
\* number of stored entries, expired ones included, is at most maxSize
C29_SizeWithinMax == Len(store) <= maxSize

\* a set of a new key has just been made on a cache that was full, and the
\* cache is full again
C29_SetOnFullCache ==
  /\ last.op = "set"
  /\ evicted
  /\ Len(store) = maxSize
  /\ StoreHas(store, last.key)

----------------------------------------------------------------------------
(* Properties of a call's HTTP attempts *)

\* C30: one request makes at most MaxRetries HTTP attempts, one
\* getCurrentObservation at most MaxRetries times the number of available
\* providers, and a call that has sent an attempt returns or fails
C30_TerminatesWithinAttempts ==
  /\ [](co.attempt < MaxRetries /\ co.sent <= MaxRetries * Len(clients))
  /\ (co.pc \in {"http", "sleep"}) ~> (co.pc \in {"returned", "failed"})

\* both providers used all their attempts and the call failed
C30_AllAttemptsUsed ==
  /\ co.pc = "failed"
  /\ Len(clients) = 2
  /\ co.sent = MaxRetries * 2

====
